---- MODULE Spec2Model ----
(***************************************************************************)
(* Model of the TracingConfig reconciler (controller/main.go): one policy  *)
(* identity, the objects it derives (ConfigMap, Deployment envFrom         *)
(* references), the policy status, and the driver that schedules passes.   *)
(*                                                                         *)
(* Go pointers and "object may be absent" are encoded as sequences of      *)
(* length 0 (nil / absent) or 1 (<<value>>).                               *)
(***************************************************************************)
EXTENDS Integers, Sequences, FiniteSets, TLC

(***************************************************************************)
(* Bounds of the model.                                                    *)
(***************************************************************************)
MaxUserEdits == 1   \* writes of the user to the policy spec in one behaviour
MaxClock     == 1   \* latest time metav1.Now() returns
MaxRate      == 100 \* largest SamplingRate compiled, in hundredths
MaxContainers == 2  \* containers of a deployment handed to the patcher alone
MaxEnvFrom    == 2  \* entries of a container's EnvFrom handed to the patcher alone
MaxMillis     == 12 \* largest number of milliseconds written as a plain numeral
MaxRequests   == 3  \* POST /orders requests the demo service is sent

(***************************************************************************)
(* The cluster the controller runs against.                                *)
(***************************************************************************)
PolicyNamespace == "ns1"
PolicyName      == "p"
Namespaces      == {"ns1", "ns2"}

Labels(app) == [k \in {"app"} |-> app]

\* Pods of the cluster, in listing order.
PodItems ==
    << [Name |-> "pod-a1", Namespace |-> "ns1", Labels |-> Labels("a")],
       [Name |-> "pod-b1", Namespace |-> "ns1", Labels |-> Labels("b")],
       [Name |-> "pod-a2", Namespace |-> "ns2", Labels |-> Labels("a")],
       [Name |-> "pod-b2", Namespace |-> "ns2", Labels |-> Labels("b")] >>

\* Deployments of the cluster, in listing order: namespace, labels of the
\* Deployment object and labels of its pod template (the containers' EnvFrom
\* lists are state, see deployments).
DeploymentNames == << "d1", "d2", "d3", "d4" >>
Deployments     == { "d1", "d2", "d3", "d4" }
DeploymentNamespace == [d \in Deployments |-> IF d = "d4" THEN "ns2" ELSE "ns1"]
\* metadata.labels, which a listing with a label selector filters on
DeploymentLabels == [d \in Deployments |->
                          IF d \in {"d1", "d2"} THEN Labels("a") ELSE Labels("b")]
\* spec.template.metadata.labels, which the pass never reads
TemplateLabels == [d \in Deployments |->
                          IF d \in {"d1", "d3"} THEN Labels("a") ELSE Labels("b")]

(***************************************************************************)
(* TracingConfigSpec / TracingConfigStatus.                                *)
(***************************************************************************)
\* SamplingRate is kept in hundredths (50 stands for 0.5).
MkSpec(rate, ns, sel, attrs, exportTimeout, batchTimeout, maxBatch) ==
    [ Enabled       |-> TRUE,
      SamplingRate  |-> rate,
      Endpoint      |-> "collector:4317",
      ServiceName   |-> "svc-a",
      Namespace     |-> ns,
      Selector      |-> sel,
      Headers       |-> <<>>,
      Attributes    |-> attrs,
      ExportTimeout |-> exportTimeout,
      BatchTimeout  |-> batchTimeout,
      MaxBatchSize  |-> maxBatch ]

SelectorAppA == << [ matchLabels |-> Labels("a"), matchExpressions |-> <<>> ] >>
SelectorBad  == << [ matchLabels |-> Labels("a"),
                     matchExpressions |->
                        << [key |-> "app", operator |-> "Bogus", values |-> {}] >> ] >>
NoSelector   == <<>>
NoAttributes == <<>>

\* The policy specs a user may write.
InitialSpec     == MkSpec(50, "", SelectorAppA, [k \in {"team"} |-> "x"], "30s", "5s", 512)
BadSelectorSpec == MkSpec(50, "", SelectorBad, NoAttributes, "", "", 0)
SpecChoices ==
    { InitialSpec,
      MkSpec(10, "",    SelectorAppA, NoAttributes, "", "", 0),
      BadSelectorSpec,
      MkSpec(100, "ns2", NoSelector,  NoAttributes, "", "", 0) }

ZeroSpec   == [ MkSpec(0, "", NoSelector, NoAttributes, "", "", 0)
                    EXCEPT !.Enabled = FALSE, !.Endpoint = "", !.ServiceName = "" ]
ZeroStatus == [ Phase |-> "", Message |-> "", AppliedAt |-> <<>>, TargetPods |-> <<>> ]

(***************************************************************************)
(* fmt.Sprintf, for the verbs the reconciler uses.                         *)
(***************************************************************************)
Digit == << "0", "1", "2", "3", "4", "5", "6", "7", "8", "9" >>

RECURSIVE SprintfD(_)
\* fmt.Sprintf("%d", n) for n >= 0
SprintfD(n) == IF n < 10 THEN Digit[n + 1]
               ELSE SprintfD(n \div 10) \o Digit[(n % 10) + 1]

\* fmt.Sprintf("<what>: %v", err), e the text of err
SprintfV(what, e) == what \o ": " \o e
\* (variant: a trailing zero is not written, as with the verb %v)
SprintfF2Short(h) ==
    IF h % 10 = 0
    THEN SprintfD(h \div 100) \o "." \o Digit[((h \div 10) % 10) + 1]
    ELSE SprintfD(h \div 100) \o "." \o Digit[((h \div 10) % 10) + 1]
                                     \o Digit[(h % 10) + 1]

\* fmt.Sprintf("%.2f", rate) for a rate given in hundredths
SprintfF2(h) == SprintfD(h \div 100) \o "." \o Digit[((h \div 10) % 10) + 1]
                                            \o Digit[(h % 10) + 1]

(***************************************************************************)
(* Selector Matcher: metav1.LabelSelectorAsSelector and label matching.    *)
(***************************************************************************)
ValidOperators == {"In", "NotIn", "Exists", "DoesNotExist"}

RequirementError(e) ==
    \/ e.operator \notin ValidOperators
    \/ e.operator \in {"In", "NotIn"} /\ e.values = {}
    \/ e.operator \in {"Exists", "DoesNotExist"} /\ e.values # {}

\* (variant: the error of the conversion is dropped)
LabelSelectorAsSelectorErrorDropped(ps) == FALSE

\* err != nil of LabelSelectorAsSelector(ps), ps a non-nil *LabelSelector
LabelSelectorAsSelectorError(ps) ==
    \E i \in 1..Len(ps.matchExpressions) : RequirementError(ps.matchExpressions[i])

RequirementMatches(e, labels) ==
    CASE e.operator = "In"           -> e.key \in DOMAIN labels /\ labels[e.key] \in e.values
      [] e.operator = "NotIn"        -> ~(e.key \in DOMAIN labels /\ labels[e.key] \in e.values)
      [] e.operator = "Exists"       -> e.key \in DOMAIN labels
      [] e.operator = "DoesNotExist" -> e.key \notin DOMAIN labels
      [] OTHER                       -> FALSE

SelectorMatches(ps, labels) ==
    /\ \A k \in DOMAIN ps.matchLabels :
          k \in DOMAIN labels /\ labels[k] = ps.matchLabels[k]
    /\ \A i \in 1..Len(ps.matchExpressions) :
          RequirementMatches(ps.matchExpressions[i], labels)
\* (variant: without a selector the options select nothing, as the selector
\* converted from a nil *LabelSelector does)
ListOptsMatchNothing(spec, ns, objNamespace, labels) ==
    /\ objNamespace = ns
    /\ spec.Selector # <<>>
    /\ SelectorMatches(spec.Selector[1], labels)

\* The list options of a pass: InNamespace(targetNamespace) and, when the
\* spec has a selector, MatchingLabelsSelector.
ListOptsMatch(spec, ns, objNamespace, labels) ==
    /\ objNamespace = ns
    /\ spec.Selector # <<>> => SelectorMatches(spec.Selector[1], labels)

(***************************************************************************)
(* Names and the Desired-State Compiler.                                   *)
(***************************************************************************)
\* (variant: the override namespace of the spec is not looked at)
TargetNamespaceOfPolicy(namespace, spec) == namespace

\* targetNamespace for a policy of the given namespace
TargetNamespaceOf(namespace, spec) ==
    IF spec.Namespace = "" THEN namespace ELSE spec.Namespace

TargetNamespace(spec) == TargetNamespaceOf(PolicyNamespace, spec)

\* configMapName for a policy of the given name
ConfigMapNameOf(name) == name \o "-tracing-config"

ConfigMapName == ConfigMapNameOf(PolicyName)
\* (variant: the key is written without the attribute's name)
AttributeKeyUnnamed(k) == "OTEL_RESOURCE_ATTRIBUTES_"

\* (variant: the key is the attribute's name, without the prefix)
AttributeKeyBare(k) == k

AttributeKey(k) == "OTEL_RESOURCE_ATTRIBUTES_" \o k

RequiredData(spec) ==
    [ k \in { "OTEL_EXPORTER_OTLP_ENDPOINT", "OTEL_SERVICE_NAME",
              "OTEL_TRACES_SAMPLER", "OTEL_TRACES_SAMPLER_ARG" } |->
        CASE k = "OTEL_EXPORTER_OTLP_ENDPOINT" -> spec.Endpoint
          [] k = "OTEL_SERVICE_NAME"           -> spec.ServiceName
          [] k = "OTEL_TRACES_SAMPLER"         -> "traceidratio"
          [] OTHER                             -> SprintfF2(spec.SamplingRate) ]

\* m with every entry of n assigned into it (n wins on a shared key)
Assign(m, n) ==
    [ k \in DOMAIN m \cup DOMAIN n |-> IF k \in DOMAIN n THEN n[k] ELSE m[k] ]
\* (variant: the export timeout is assigned whether it is set or not)
OptionalDataUnguarded(spec) ==
    LET keys == {"OTEL_EXPORTER_OTLP_TIMEOUT"}
           \cup (IF spec.BatchTimeout # "" THEN {"OTEL_BSP_SCHEDULE_DELAY"} ELSE {})
           \cup (IF spec.MaxBatchSize > 0 THEN {"OTEL_BSP_MAX_EXPORT_BATCH_SIZE"} ELSE {})
    IN [ k \in keys |->
           CASE k = "OTEL_EXPORTER_OTLP_TIMEOUT" -> spec.ExportTimeout
             [] k = "OTEL_BSP_SCHEDULE_DELAY"    -> spec.BatchTimeout
             [] OTHER                            -> SprintfD(spec.MaxBatchSize) ]

OptionalData(spec) ==
    LET keys == (IF spec.ExportTimeout # "" THEN {"OTEL_EXPORTER_OTLP_TIMEOUT"} ELSE {})
           \cup (IF spec.BatchTimeout # "" THEN {"OTEL_BSP_SCHEDULE_DELAY"} ELSE {})
           \cup (IF spec.MaxBatchSize > 0 THEN {"OTEL_BSP_MAX_EXPORT_BATCH_SIZE"} ELSE {})
    IN [ k \in keys |->
           CASE k = "OTEL_EXPORTER_OTLP_TIMEOUT" -> spec.ExportTimeout
             [] k = "OTEL_BSP_SCHEDULE_DELAY"    -> spec.BatchTimeout
             [] OTHER                            -> SprintfD(spec.MaxBatchSize) ]

AttributeData(spec) ==
    [ k \in { AttributeKey(a) : a \in DOMAIN spec.Attributes } |->
        LET a == CHOOSE a \in DOMAIN spec.Attributes : AttributeKey(a) = k
        IN  spec.Attributes[a] ]

\* (variant: the headers of the spec are written into the Data as well)
ConfigMapDataWithHeaders(spec) ==
    Assign(Assign(Assign(RequiredData(spec), OptionalData(spec)), AttributeData(spec)),
           [ k \in DOMAIN spec.Headers |-> spec.Headers[k] ])

\* configMap.Data as built by the pass
ConfigMapData(spec) ==
    Assign(Assign(RequiredData(spec), OptionalData(spec)), AttributeData(spec))

\* The orders in which a range loop may visit the keys of a map.
Orders(keys) ==
    { o \in [ 1..Cardinality(keys) -> keys ] :
        \A k \in keys : \E i \in DOMAIN o : o[i] = k }

RECURSIVE RangeAttributes(_, _, _)
\* data after the loop over spec.Attributes has visited the keys of order
RangeAttributes(data, attributes, order) ==
    IF order = <<>> THEN data
    ELSE RangeAttributes(
            Assign(data, [ k \in { AttributeKey(Head(order)) } |-> attributes[Head(order)] ]),
            attributes, Tail(order))

\* configMap.Data as built statement by statement, the attribute loop
\* visiting the keys in the given order
ConfigMapDataRange(spec, order) ==
    RangeAttributes(Assign(RequiredData(spec), OptionalData(spec)),
                    spec.Attributes, order)

(***************************************************************************)
(* Workload Patcher: the envFrom scan of one container.                    *)
(***************************************************************************)
ConfigMapRef(name) == [ ConfigMapRef |-> <<name>>, SecretRef |-> <<>> ]
SecretRef(name)    == [ ConfigMapRef |-> <<>>, SecretRef |-> <<name>> ]

\* (variant: the scan stops after the first entry)
EnvFromExistsFirstOnly(envFrom) ==
    /\ envFrom # <<>>
    /\ envFrom[1].ConfigMapRef # <<>>
    /\ envFrom[1].ConfigMapRef[1] = ConfigMapName

\* envFromExists after the scan of container.EnvFrom
EnvFromExists(envFrom) ==
    \E i \in 1..Len(envFrom) :
        envFrom[i].ConfigMapRef # <<>> /\ envFrom[i].ConfigMapRef[1] = ConfigMapName

\* (variant: the reference is appended to a copy that is dropped)
PatchEnvFromDropped(envFrom) == envFrom
\* (variant: the reference is put in front of the list)
PatchEnvFromInFront(envFrom) ==
    IF EnvFromExists(envFrom) THEN envFrom
    ELSE << ConfigMapRef(ConfigMapName) >> \o envFrom

\* container.EnvFrom after the body of the container loop
PatchEnvFrom(envFrom) ==
    IF EnvFromExists(envFrom) THEN envFrom
    ELSE Append(envFrom, ConfigMapRef(ConfigMapName))

\* deployment.Spec.Template.Spec.Containers after the container loop
PatchContainers(containers) ==
    [ i \in 1..Len(containers) |-> PatchEnvFrom(containers[i]) ]

\* the flag "updated" after the container loop
Updated(containers) ==
    \E i \in 1..Len(containers) : ~EnvFromExists(containers[i])

\* the EnvFrom lists of a deployment object's containers
EnvFroms(deployment) ==
    [ i \in 1..Len(deployment.Containers) |-> deployment.Containers[i].EnvFrom ]

\* the loop variable "deployment" after the container loop: the object
\* handed to r.Update
PatchDeployment(deployment) ==
    [ deployment EXCEPT !.Containers =
        [ i \in 1..Len(deployment.Containers) |->
            [ deployment.Containers[i] EXCEPT
                !.EnvFrom = PatchContainers(EnvFroms(deployment))[i] ] ] ]

(***************************************************************************)
(* State.                                                                  *)
(***************************************************************************)
VARIABLES
    \* the resource store
    policy,           \* <<>> or <<[spec, status]>>: the TracingConfig object
    configMaps,       \* namespace -> <<>> or <<Data>> of ConfigMapName there
    deployments,      \* deployment name -> list of the containers' EnvFrom
    clock,            \* the time metav1.Now() returned last
    \* the pass in flight (locals of Reconcile)
    pc,               \* "idle" or the store call the pass is about to make
    tracingConfig,    \* the pass's copy of the policy
    tcStale,          \* the store's policy was written by the user since the copy was read
    pods,             \* names of pods.Items
    cmStale,          \* the store's ConfigMap was written by another writer
                      \* since the pass read or wrote it
    deploymentItems,  \* deployments.Items: <<[Name, Containers]>>
    depIdx,           \* position of the deployment loop in deploymentItems
    err,              \* the error the pass is about to return
    result,           \* what the pass returned: [err, RequeueAfter]
    \* the driver (controller-runtime work queue for the one identity)
    queued,           \* the identity is in the work queue
    timer,            \* pending delayed re-add: "none", "backoff", "requeueAfter"
    \* the environment's budget
    userEdits,
    \* observation only
    log,              \* store calls of the latest pass: <<[op, arg, ok]>>
    prevRate,         \* SamplingRate of the pass before the latest one if that
                      \* pass ended Applied with every call successful, else -1
    initial,          \* deployments as they were before any pass
    \* the compiler taken alone
    given,            \* <<>>, or the TracingConfig objects handed to the compiler
    built,            \* <<>>, or what the compiler built for each of them
    ranged,           \* <<>>, or the order each attribute loop took
    \* the demo service
    orders,           \* the package variable orders: <<[ID, UserID]>>
    handlers          \* <<[pc, order, appended]>>: the runs of createOrderHandler,
                      \* one for each request received

storeVars  == << policy, configMaps, deployments, clock >>
copyVars   == << tracingConfig, tcStale >>
listVars   == << pods, deploymentItems, depIdx >>
passVars   == << pc, copyVars, cmStale, listVars, err, result >>
driverVars == << queued, timer >>
envVars    == << userEdits >>
demoVars   == << orders, handlers >>
fnVars     == << given, built, ranged, demoVars >>
obsVars    == << log, prevRate, initial, fnVars >>
vars       == << storeVars, passVars, driverVars, envVars, obsVars >>

RequeueAfter == 5    \* minutes

Call(op, arg, ok) == [ op |-> op, arg |-> arg, ok |-> ok ]
AllOK(l) == \A i \in 1..Len(l) : l[i].ok

\* The EnvFrom lists the containers of each deployment start with.
InitialContainers ==
    [ d \in Deployments |->
        CASE d = "d1" -> << << ConfigMapRef("other"), SecretRef(ConfigMapName) >>,
                            << ConfigMapRef(ConfigMapName) >> >>
          [] d = "d2" -> << <<>>, << SecretRef("s"), ConfigMapRef("other") >> >>
          [] OTHER    -> << <<>> >> ]

NoResult == [ err |-> "nil", RequeueAfter |-> 0 ]

BaseInit ==
    /\ policy = << [ spec |-> InitialSpec, status |-> ZeroStatus ] >>
    /\ configMaps = [ ns \in Namespaces |-> <<>> ]
    /\ deployments = InitialContainers
    /\ clock = 0
    /\ pc = "idle"
    /\ tracingConfig = [ spec |-> ZeroSpec, status |-> ZeroStatus ]
    /\ tcStale = FALSE
    /\ pods = <<>>
    /\ cmStale = FALSE
    /\ deploymentItems = <<>>
    /\ depIdx = 1
    /\ err = "nil"
    /\ result = NoResult
    /\ queued = TRUE
    /\ timer = "none"
    /\ userEdits = 0
    /\ log = <<>>
    /\ prevRate = -1
    /\ initial = deployments
    /\ orders = <<>>
    /\ handlers = <<>>

Init ==
    /\ BaseInit
    /\ given = <<>>
    /\ built = <<>>
    /\ ranged = <<>>

(***************************************************************************)
(* The driver: one pass per identity at a time, started from the queue.    *)
(***************************************************************************)
\* the latest pass has read its copy of the policy
CopyRead == log # <<>> /\ log[1] = Call("GetPolicy", "", TRUE)

\* the latest pass has read or written the ConfigMap
ConfigMapSeen ==
    \E i \in 1..Len(log) :
        log[i].op \in { "GetConfigMap", "CreateConfigMap", "UpdateConfigMap" }

\* the latest pass made every store call with success and ended Applied
EndedApplied ==
    /\ pc = "idle"
    /\ log # <<>>
    /\ AllOK(log)
    /\ log[Len(log)] = Call("UpdateStatus", "Applied", TRUE)
\* (variant: a queued identity is handed to a worker although its pass is
\* still in flight)
StartPassUnserialized ==
    /\ queued
    /\ queued' = FALSE
    /\ pc' = "Get"
    /\ err' = "nil"
    /\ result' = NoResult
    /\ log' = <<>>
    /\ prevRate' = IF EndedApplied THEN tracingConfig.spec.SamplingRate ELSE -1
    /\ tracingConfig' = [ spec |-> ZeroSpec, status |-> ZeroStatus ]
    /\ pods' = <<>>
    /\ deploymentItems' = <<>>
    /\ depIdx' = 1
    /\ tcStale' = FALSE
    /\ cmStale' = FALSE
    /\ UNCHANGED << storeVars, timer, envVars, initial, fnVars >>

StartPass ==
    /\ pc = "idle"
    /\ queued
    /\ queued' = FALSE
    /\ pc' = "Get"
    /\ err' = "nil"
    /\ result' = NoResult
    /\ log' = <<>>
    /\ prevRate' = IF EndedApplied THEN tracingConfig.spec.SamplingRate ELSE -1
    \* the locals of the new call start from their zero values
    /\ tracingConfig' = [ spec |-> ZeroSpec, status |-> ZeroStatus ]
    /\ pods' = <<>>
    /\ deploymentItems' = <<>>
    /\ depIdx' = 1
    /\ tcStale' = FALSE
    /\ cmStale' = FALSE
    /\ UNCHANGED << storeVars, timer, envVars, initial, fnVars >>

\* A delayed re-add (rate-limited after an error, or RequeueAfter) comes due.
TimerFire ==
    /\ timer # "none"
    /\ timer' = "none"
    /\ queued' = TRUE
    /\ UNCHANGED << storeVars, passVars, envVars, obsVars >>
\* (variant: a returned error asks for no re-add)
ReturnNoBackoff(e, requeueAfter) ==
    /\ pc' = "idle"
    /\ err' = e
    /\ result' = [ err |-> e, RequeueAfter |-> requeueAfter ]
    /\ timer' = IF e = "nil" /\ requeueAfter > 0 THEN "requeueAfter" ELSE timer

\* Reconcile returns (e, requeueAfter) to the driver.
Return(e, requeueAfter) ==
    /\ pc' = "idle"
    /\ err' = e
    /\ result' = [ err |-> e, RequeueAfter |-> requeueAfter ]
    /\ timer' = IF e # "nil" THEN "backoff"
                ELSE IF requeueAfter > 0 THEN "requeueAfter"
                ELSE timer

(***************************************************************************)
(* Status writes: r.Status().Update(ctx, &tracingConfig).                  *)
(***************************************************************************)
\* The store accepts the write of the pass's copy.
StatusWritable == policy # <<>> /\ ~tcStale

\* Outcome ok: the store takes the copy's status, and the watch reports the
\* modification of the policy object to the driver.
StatusUpdate(ok) ==
    /\ ok => StatusWritable
    /\ policy' = IF ok THEN << [ policy[1] EXCEPT !.status = tracingConfig.status ] >>
                 ELSE policy
    /\ queued' = (queued \/ ok)
    /\ log' = Append(log, Call("UpdateStatus", tracingConfig.status.Phase, ok))
\* (variant: the status is built anew, without the last-applied fields)
WithStatusAnew(tc, phase, message) ==
    [ tc EXCEPT !.status = [ Phase |-> phase, Message |-> message,
                             AppliedAt |-> <<>>, TargetPods |-> <<>> ] ]

WithStatus(tc, phase, message) ==
    [ tc EXCEPT !.status.Phase = phase, !.status.Message = message ]

(***************************************************************************)
(* Reconcile, one action per store call and outcome.                       *)
(***************************************************************************)
\* (variant: the copy is not marked Pending before its first status write)
GetPolicyOKUnmarked ==
    /\ pc = "Get"
    /\ policy # <<>>
    /\ tracingConfig' = policy[1]
    /\ tcStale' = FALSE
    /\ log' = Append(log, Call("GetPolicy", "", TRUE))
    /\ pc' = "StatusPending"
    /\ UNCHANGED << storeVars, cmStale, listVars, err, result, driverVars, envVars,
                    prevRate, initial, fnVars >>
\* (variant: a policy whose status is Applied already is left alone)
GetPolicyOKSkipApplied ==
    /\ pc = "Get"
    /\ policy # <<>>
    /\ tracingConfig' = WithStatus(policy[1], "Pending", "Processing tracing configuration")
    /\ tcStale' = FALSE
    /\ log' = Append(log, Call("GetPolicy", "", TRUE))
    /\ pc' = IF policy[1].status.Phase = "Applied" THEN "idle" ELSE "StatusPending"
    /\ UNCHANGED << storeVars, cmStale, listVars, err, result, driverVars, envVars,
                    prevRate, initial, fnVars >>

\* r.Get of the policy succeeds; the copy is marked Pending.
GetPolicyOK ==
    /\ pc = "Get"
    /\ policy # <<>>
    /\ tracingConfig' = WithStatus(policy[1], "Pending", "Processing tracing configuration")
    /\ tcStale' = FALSE
    /\ log' = Append(log, Call("GetPolicy", "", TRUE))
    /\ pc' = "StatusPending"
    /\ UNCHANGED << storeVars, cmStale, listVars, err, result, driverVars, envVars,
                    prevRate, initial, fnVars >>
\* (variant: the NotFound error is returned as it is)
GetPolicyNotFoundReturned ==
    /\ pc = "Get"
    /\ policy = <<>>
    /\ log' = Append(log, Call("GetPolicy", "NotFound", FALSE))
    /\ Return("NotFound", 0)
    /\ UNCHANGED << storeVars, copyVars, cmStale, listVars, queued, envVars,
                    prevRate, initial, fnVars >>
\* (variant: the pass that finds the policy gone deletes the ConfigMaps)
GetPolicyNotFoundCollects ==
    /\ pc = "Get"
    /\ policy = <<>>
    /\ log' = Append(log, Call("GetPolicy", "NotFound", FALSE))
    /\ configMaps' = [ ns \in Namespaces |-> <<>> ]
    /\ Return("nil", 0)
    /\ UNCHANGED << policy, deployments, clock, copyVars, cmStale, listVars, queued,
                    envVars, prevRate, initial, fnVars >>

\* r.Get reports NotFound: IgnoreNotFound makes the pass return (Result{}, nil).
GetPolicyNotFound ==
    /\ pc = "Get"
    /\ policy = <<>>
    /\ log' = Append(log, Call("GetPolicy", "NotFound", FALSE))
    /\ Return("nil", 0)
    /\ UNCHANGED << storeVars, copyVars, cmStale, listVars, queued, envVars,
                    prevRate, initial, fnVars >>

\* r.Get fails with another error, which is returned.
GetPolicyError ==
    /\ pc = "Get"
    /\ log' = Append(log, Call("GetPolicy", "", FALSE))
    /\ Return("StoreError", 0)
    /\ UNCHANGED << storeVars, copyVars, cmStale, listVars, queued, envVars,
                    prevRate, initial, fnVars >>
\* (variant: a failed write of the Pending status ends the pass)
StatusPendingAborts(ok) ==
    /\ pc = "StatusPending"
    /\ StatusUpdate(ok)
    /\ IF ~ok
       THEN /\ Return("StoreError", 0)
            /\ UNCHANGED tracingConfig
       ELSE /\ pc' = "ListPods"
            /\ UNCHANGED << tracingConfig, err, result, timer >>
    /\ UNCHANGED << configMaps, deployments, clock, tcStale, cmStale, listVars,
                    envVars, prevRate, initial, fnVars >>

\* The Pending status write (its failure is only logged), then the
\* resolution of the selector.
StatusPending(ok) ==
    /\ pc = "StatusPending"
    /\ StatusUpdate(ok)
    /\ IF /\ tracingConfig.spec.Selector # <<>>
          /\ LabelSelectorAsSelectorError(tracingConfig.spec.Selector[1])
       THEN /\ tracingConfig' = WithStatus(tracingConfig, "Failed",
                                  SprintfV("Invalid label selector", "InvalidSelector"))
            /\ err' = "InvalidSelector"
            /\ pc' = "StatusFailed"
       ELSE /\ pc' = "ListPods"
            /\ UNCHANGED << tracingConfig, err >>
    /\ UNCHANGED << configMaps, deployments, clock, tcStale, cmStale, listVars,
                    result, timer, envVars, prevRate, initial, fnVars >>

\* The status write of a pass that failed, then the return of its error.
StatusFailed(ok) ==
    /\ pc = "StatusFailed"
    /\ StatusUpdate(ok)
    /\ Return(err, 0)
    /\ UNCHANGED << configMaps, deployments, clock, copyVars, cmStale, listVars,
                    envVars, prevRate, initial, fnVars >>

PodNames(spec) ==
    LET sel == SelectSeq(PodItems,
                 LAMBDA p : ListOptsMatch(spec, TargetNamespace(spec), p.Namespace, p.Labels))
    IN  [ i \in 1..Len(sel) |-> sel[i].Name ]

ListPodsOK ==
    /\ pc = "ListPods"
    /\ pods' = PodNames(tracingConfig.spec)
    /\ log' = Append(log, Call("ListPods", "", TRUE))
    /\ pc' = "GetConfigMap"
    /\ UNCHANGED << storeVars, copyVars, cmStale, deploymentItems, depIdx, err,
                    result, driverVars, envVars, prevRate, initial, fnVars >>
\* (variant: the failed listing is logged and the pass goes on)
ListPodsErrorIgnored ==
    /\ pc = "ListPods"
    /\ log' = Append(log, Call("ListPods", "", FALSE))
    /\ pods' = <<>>
    /\ pc' = "GetConfigMap"
    /\ UNCHANGED << storeVars, copyVars, cmStale, deploymentItems, depIdx, err,
                    result, driverVars, envVars, prevRate, initial, fnVars >>

ListPodsError ==
    /\ pc = "ListPods"
    /\ log' = Append(log, Call("ListPods", "", FALSE))
    /\ tracingConfig' = WithStatus(tracingConfig, "Failed",
                                  SprintfV("Failed to list pods", "StoreError"))
    /\ err' = "StoreError"
    /\ pc' = "StatusFailed"
    /\ UNCHANGED << storeVars, tcStale, cmStale, listVars, result, driverVars,
                    envVars, prevRate, initial, fnVars >>

(***************************************************************************)
(* Config Reconciler: get, then create or update the ConfigMap.            *)
(***************************************************************************)
targetNamespace == TargetNamespace(tracingConfig.spec)

\* (variant: an existing ConfigMap is left as it is)
GetConfigMapFoundKept ==
    /\ pc = "GetConfigMap"
    /\ configMaps[targetNamespace] # <<>>
    /\ cmStale' = FALSE
    /\ log' = Append(log, Call("GetConfigMap", targetNamespace, TRUE))
    /\ pc' = "ListDeployments"
    /\ UNCHANGED << storeVars, copyVars, listVars, err, result, driverVars, envVars,
                    prevRate, initial, fnVars >>

GetConfigMapFound ==
    /\ pc = "GetConfigMap"
    /\ configMaps[targetNamespace] # <<>>
    /\ cmStale' = FALSE
    /\ log' = Append(log, Call("GetConfigMap", targetNamespace, TRUE))
    /\ pc' = "UpdateConfigMap"
    /\ UNCHANGED << storeVars, copyVars, listVars, err, result, driverVars, envVars,
                    prevRate, initial, fnVars >>

GetConfigMapNotFound ==
    /\ pc = "GetConfigMap"
    /\ configMaps[targetNamespace] = <<>>
    /\ cmStale' = FALSE
    /\ log' = Append(log, Call("GetConfigMap", "NotFound", FALSE))
    /\ pc' = "CreateConfigMap"
    /\ UNCHANGED << storeVars, copyVars, listVars, err, result, driverVars, envVars,
                    prevRate, initial, fnVars >>

\* Any other error of the get is returned without a status write.
GetConfigMapError ==
    /\ pc = "GetConfigMap"
    /\ log' = Append(log, Call("GetConfigMap", "", FALSE))
    /\ Return("StoreError", 0)
    /\ UNCHANGED << storeVars, copyVars, cmStale, listVars, queued, envVars,
                    prevRate, initial, fnVars >>

CreateConfigMapOK ==
    /\ pc = "CreateConfigMap"
    /\ configMaps[targetNamespace] = <<>>
    /\ configMaps' = [ configMaps EXCEPT ![targetNamespace] =
                                           << ConfigMapData(tracingConfig.spec) >> ]
    /\ log' = Append(log, Call("CreateConfigMap", targetNamespace, TRUE))
    /\ pc' = "ListDeployments"
    /\ UNCHANGED << policy, deployments, clock, copyVars, cmStale, listVars, err,
                    result, driverVars, envVars, prevRate, initial, fnVars >>

\* (variant: the failed create is only logged)
CreateConfigMapErrorLogged ==
    /\ pc = "CreateConfigMap"
    /\ log' = Append(log, Call("CreateConfigMap", targetNamespace, FALSE))
    /\ pc' = "ListDeployments"
    /\ UNCHANGED << storeVars, copyVars, cmStale, listVars, err, result, driverVars,
                    envVars, prevRate, initial, fnVars >>

CreateConfigMapError ==
    /\ pc = "CreateConfigMap"
    /\ log' = Append(log, Call("CreateConfigMap", targetNamespace, FALSE))
    /\ tracingConfig' = WithStatus(tracingConfig, "Failed",
                                  SprintfV("Failed to create ConfigMap", "StoreError"))
    /\ err' = "StoreError"
    /\ pc' = "StatusFailed"
    /\ UNCHANGED << storeVars, tcStale, cmStale, listVars, result, driverVars,
                    envVars, prevRate, initial, fnVars >>

\* (variant: the desired entries are merged into the existing Data)
ExistingDataMerged(existing, desired) == Assign(existing, desired)

\* existingConfigMap.Data = configMap.Data
ExistingData(existing, desired) == desired

\* The update is sent whatever the existing Data is.
UpdateConfigMapOK ==
    /\ pc = "UpdateConfigMap"
    /\ configMaps[targetNamespace] # <<>>
    /\ ~cmStale
    /\ configMaps' = [ configMaps EXCEPT ![targetNamespace] =
                         << ExistingData(configMaps[targetNamespace][1],
                                         ConfigMapData(tracingConfig.spec)) >> ]
    /\ log' = Append(log, Call("UpdateConfigMap",
                                IF configMaps[targetNamespace][1]
                                      = ConfigMapData(tracingConfig.spec)
                                THEN "unchanged" ELSE "changed", TRUE))
    /\ pc' = "ListDeployments"
    /\ UNCHANGED << policy, deployments, clock, copyVars, cmStale, listVars, err,
                    result, driverVars, envVars, prevRate, initial, fnVars >>

\* (variant: the failed update is reported in the status but not returned)
UpdateConfigMapErrorNotReturned ==
    /\ pc = "UpdateConfigMap"
    /\ log' = Append(log, Call("UpdateConfigMap", "", FALSE))
    /\ tracingConfig' = WithStatus(tracingConfig, "Failed",
                                  SprintfV("Failed to update ConfigMap", "StoreError"))
    /\ err' = "nil"
    /\ pc' = "StatusFailed"
    /\ UNCHANGED << storeVars, tcStale, cmStale, listVars, result, driverVars,
                    envVars, prevRate, initial, fnVars >>

UpdateConfigMapError ==
    /\ pc = "UpdateConfigMap"
    /\ log' = Append(log, Call("UpdateConfigMap", "", FALSE))
    /\ tracingConfig' = WithStatus(tracingConfig, "Failed",
                                  SprintfV("Failed to update ConfigMap", "StoreError"))
    /\ err' = "StoreError"
    /\ pc' = "StatusFailed"
    /\ UNCHANGED << storeVars, tcStale, cmStale, listVars, result, driverVars,
                    envVars, prevRate, initial, fnVars >>

(***************************************************************************)
(* Workload Patcher: list, then one update per deployment that changed.    *)
(***************************************************************************)
DeploymentItems(spec) ==
    LET sel == SelectSeq(DeploymentNames,
                 LAMBDA d : ListOptsMatch(spec, TargetNamespace(spec),
                                          DeploymentNamespace[d], DeploymentLabels[d]))
    IN  [ i \in 1..Len(sel) |-> [ Name |-> sel[i], Containers |-> deployments[sel[i]] ] ]

\* (variant: the flag "updated" is not looked at)
NextUpdatedAlways(items, i) == i

RECURSIVE NextUpdated(_, _)
\* first position from i on whose deployment the container loop changes
NextUpdated(items, i) ==
    IF i > Len(items) \/ Updated(items[i].Containers) THEN i
    ELSE NextUpdated(items, i + 1)

\* (variant: AppliedAt is not assigned)
AppliedStatusNoTime(tc, targetPodNames, t) ==
    [ tc EXCEPT !.status.Phase = "Applied",
                !.status.Message = "Tracing configuration applied to "
                                      \o SprintfD(Len(targetPodNames)) \o " pods",
                !.status.TargetPods = targetPodNames ]
\* (variant: the pod names are appended to the list the status holds)
AppliedStatusAppended(tc, targetPodNames, t) ==
    [ tc EXCEPT !.status =
        [ Phase      |-> "Applied",
          Message    |-> "Tracing configuration applied to "
                            \o SprintfD(Len(targetPodNames)) \o " pods",
          AppliedAt  |-> << t >>,
          TargetPods |-> tc.status.TargetPods \o targetPodNames ] ]

\* the copy as assigned before the final status write
AppliedStatus(tc, targetPodNames, t) ==
    [ tc EXCEPT !.status =
        [ Phase      |-> "Applied",
          Message    |-> "Tracing configuration applied to "
                            \o SprintfD(Len(targetPodNames)) \o " pods",
          AppliedAt  |-> << t >>,
          TargetPods |-> targetPodNames ] ]

\* The code between the deployment loop and the final status write; now is
\* what metav1.Now() returns, the time of its last call or later.
CollectAndMarkApplied ==
    /\ pc' = "StatusApplied"
    /\ \E now \in clock..MaxClock :
          /\ clock' = now
          /\ tracingConfig' = AppliedStatus(tracingConfig, pods, now)

\* The deployment loop runs from position i up to its next store call, or to
\* its end.
Loop(items, i) ==
    /\ depIdx' = NextUpdated(items, i)
    /\ IF NextUpdated(items, i) > Len(items)
       THEN CollectAndMarkApplied
       ELSE /\ pc' = "UpdateDeployment"
            /\ UNCHANGED << tracingConfig, clock >>

ListDeploymentsOK ==
    /\ pc = "ListDeployments"
    /\ deploymentItems' = DeploymentItems(tracingConfig.spec)
    /\ log' = Append(log, Call("ListDeployments", "", TRUE))
    /\ Loop(DeploymentItems(tracingConfig.spec), 1)
    /\ UNCHANGED << policy, configMaps, deployments, tcStale, cmStale, pods, err, result, driverVars,
                    envVars, prevRate, initial, fnVars >>

\* A failed listing is only logged.
ListDeploymentsError ==
    /\ pc = "ListDeployments"
    /\ log' = Append(log, Call("ListDeployments", "", FALSE))
    /\ CollectAndMarkApplied
    /\ UNCHANGED << policy, configMaps, deployments, tcStale, cmStale, pods, deploymentItems, depIdx, err,
                    result, driverVars, envVars, prevRate, initial, fnVars >>

UpdateDeploymentOK ==
    /\ pc = "UpdateDeployment"
    /\ LET item == deploymentItems[depIdx]
       IN  /\ deployments' = [ deployments EXCEPT ![item.Name] =
                                                   PatchContainers(item.Containers) ]
           /\ log' = Append(log, Call("UpdateDeployment", item.Name, TRUE))
    /\ Loop(deploymentItems, depIdx + 1)
    /\ UNCHANGED << policy, configMaps, tcStale, cmStale, pods,
                    deploymentItems, err, result, driverVars, envVars, prevRate,
                    initial, fnVars >>

\* (variant: a failed update ends the pass as Failed)
UpdateDeploymentErrorAborts ==
    /\ pc = "UpdateDeployment"
    /\ log' = Append(log, Call("UpdateDeployment", deploymentItems[depIdx].Name, FALSE))
    /\ tracingConfig' = WithStatus(tracingConfig, "Failed",
                                  SprintfV("Failed to update deployment", "StoreError"))
    /\ err' = "StoreError"
    /\ pc' = "StatusFailed"
    /\ UNCHANGED << storeVars, tcStale, cmStale, listVars, result, driverVars,
                    envVars, prevRate, initial, fnVars >>

\* (variant: a failed update is tried again at once)
UpdateDeploymentErrorRetried ==
    /\ pc = "UpdateDeployment"
    /\ log' = Append(log, Call("UpdateDeployment", deploymentItems[depIdx].Name, FALSE))
    /\ UNCHANGED << storeVars, passVars, driverVars, envVars, prevRate, initial, fnVars >>

\* A failed update is only logged; the loop goes on.
UpdateDeploymentError ==
    /\ pc = "UpdateDeployment"
    /\ log' = Append(log, Call("UpdateDeployment", deploymentItems[depIdx].Name, FALSE))
    /\ Loop(deploymentItems, depIdx + 1)
    /\ UNCHANGED << policy, configMaps, deployments, tcStale, cmStale, pods, deploymentItems, err, result,
                    driverVars, envVars, prevRate, initial, fnVars >>
\* (variant: the re-add after RequeueAfter is asked for with the error too)
StatusAppliedRequeuedAlways(ok) ==
    /\ pc = "StatusApplied"
    /\ StatusUpdate(ok)
    /\ Return(IF ok THEN "nil" ELSE "StoreError", RequeueAfter)
    /\ UNCHANGED << configMaps, deployments, clock, copyVars, cmStale, listVars,
                    envVars, prevRate, initial, fnVars >>

\* The final status write: requeue after five minutes, or return its error.
StatusApplied(ok) ==
    /\ pc = "StatusApplied"
    /\ StatusUpdate(ok)
    /\ IF ok THEN Return("nil", RequeueAfter) ELSE Return("StoreError", 0)
    /\ UNCHANGED << configMaps, deployments, clock, copyVars, cmStale, listVars,
                    envVars, prevRate, initial, fnVars >>

(***************************************************************************)
(* The environment: the user, other writers, time.                         *)
(***************************************************************************)
\* The user replaces the spec by one of choices; the watch reports it.
UserWrites(choices) ==
    /\ policy # <<>>
    /\ userEdits < MaxUserEdits
    /\ \E s \in choices \ { policy[1].spec } :
          policy' = << [ policy[1] EXCEPT !.spec = s ] >>
    /\ userEdits' = userEdits + 1
    /\ tcStale' = (tcStale \/ CopyRead)
    /\ queued' = TRUE
    /\ UNCHANGED << configMaps, deployments, clock, pc, tracingConfig, cmStale,
                    listVars, err, result, timer, obsVars >>

UserUpdateSpec == UserWrites(SpecChoices)

\* The user writes a selector that does not parse.
UserBreaksSelector == UserWrites({ BadSelectorSpec })

UserDeletePolicy ==
    /\ policy # <<>>
    /\ policy' = <<>>
    /\ queued' = TRUE
    /\ UNCHANGED << configMaps, deployments, clock, passVars, timer, envVars, obsVars >>

\* What another writer does to a derived ConfigMap's Data: it adds a key
\* and changes the sampler ratio.
DriftEdit(data) ==
    Assign(data, [ k \in {"EXTRA", "OTEL_TRACES_SAMPLER_ARG"} |->
                     IF k = "EXTRA" THEN "1" ELSE "9.99" ])

Edited(ns) == configMaps[ns] # <<>> /\ "EXTRA" \in DOMAIN configMaps[ns][1]

\* Another writer edits a derived ConfigMap that carries no such edit yet.
ExternalEditConfigMap ==
    /\ \E ns \in Namespaces :
          /\ configMaps[ns] # <<>>
          /\ ~Edited(ns)
          /\ configMaps' = [ configMaps EXCEPT ![ns] = << DriftEdit(configMaps[ns][1]) >> ]
          /\ cmStale' = (cmStale \/ (ConfigMapSeen /\ ns = targetNamespace))
    /\ UNCHANGED << policy, deployments, clock, pc, copyVars, listVars, err, result,
                    driverVars, envVars, obsVars >>

(***************************************************************************)
(* Specifications.                                                         *)
(***************************************************************************)
Pass ==
    \/ GetPolicyOK
    \/ GetPolicyNotFound
    \/ GetPolicyError
    \/ StatusPending(TRUE)
    \/ StatusPending(FALSE)
    \/ StatusFailed(TRUE)
    \/ StatusFailed(FALSE)
    \/ ListPodsOK
    \/ ListPodsError
    \/ GetConfigMapFound
    \/ GetConfigMapNotFound
    \/ GetConfigMapError
    \/ CreateConfigMapOK
    \/ CreateConfigMapError
    \/ UpdateConfigMapOK
    \/ UpdateConfigMapError
    \/ ListDeploymentsOK
    \/ ListDeploymentsError
    \/ UpdateDeploymentOK
    \/ UpdateDeploymentError
    \/ StatusApplied(TRUE)
    \/ StatusApplied(FALSE)

Environment ==
    \/ UserUpdateSpec
    \/ UserDeletePolicy
    \/ ExternalEditConfigMap

Next ==
    \/ StartPass
    \/ TimerFire
    \/ Pass
    \/ Environment

Spec == Init /\ [][Next]_vars

\* The driver runs a queued identity and fires its timers, a pass in flight
\* goes on, and no store call fails for ever.
Fairness ==
    /\ WF_vars(StartPass)
    /\ WF_vars(TimerFire)
    /\ WF_vars(Pass)
    /\ SF_vars(GetPolicyOK)
    /\ SF_vars(ListPodsOK)
    /\ SF_vars(GetConfigMapFound \/ GetConfigMapNotFound)
    /\ SF_vars(CreateConfigMapOK \/ UpdateConfigMapOK)
    /\ SF_vars(ListDeploymentsOK)
    /\ SF_vars(UpdateDeploymentOK)

\* The policy keeps its targets; its selector may be broken or the policy
\* deleted, and other writers edit the derived ConfigMap again and again.
LiveNext ==
    \/ StartPass
    \/ TimerFire
    \/ Pass
    \/ ExternalEditConfigMap
    \/ UserBreaksSelector
    \/ UserDeletePolicy

LiveSpec == Init /\ [][LiveNext]_vars /\ Fairness

(***************************************************************************)
(* The compiler taken alone: what one pass builds from the policy it read, *)
(* over more policies than the cluster above holds.                        *)
(***************************************************************************)
MkPolicy(namespace, name, spec) == [ Namespace |-> namespace, Name |-> name, spec |-> spec ]

PolicyNames    == { "p", "q" }
Overrides      == Namespaces \cup { "" }
Rates          == 0..MaxRate
ExportTimeouts == { "", "30s" }
BatchTimeouts  == { "", "5s" }
MaxBatchSizes  == { -1, 0, 7, 512 }
AttributeMaps  == { NoAttributes,
                    [ k \in {"team"} |-> "x" ],
                    [ k \in {"team", "env"} |-> IF k = "team" THEN "x" ELSE "prod" ] }

\* policies of every identity with every combination of the compiled fields
CompiledPolicies ==
    { MkPolicy(ns, n, MkSpec(r, o, NoSelector, a, e, b, m)) :
        ns \in Namespaces, n \in PolicyNames, r \in Rates, o \in Overrides,
        a \in AttributeMaps, e \in ExportTimeouts, b \in BatchTimeouts,
        m \in MaxBatchSizes }

\* policies of every identity with every override namespace
NamedPolicies ==
    { MkPolicy(ns, n, MkSpec(50, o, NoSelector, NoAttributes, "", "", 0)) :
        ns \in Namespaces, n \in PolicyNames, o \in Overrides }

\* The key of the ConfigMap the pass reads, and the ConfigMap it builds to
\* create or to take the Data of.
BuildConfigMap(tc, order) ==
    [ key       |-> [ Name      |-> ConfigMapNameOf(tc.Name),
                      Namespace |-> TargetNamespaceOf(tc.Namespace, tc.spec) ],
      configMap |-> [ Name      |-> ConfigMapNameOf(tc.Name),
                      Namespace |-> TargetNamespaceOf(tc.Namespace, tc.spec),
                      Data      |-> ConfigMapDataRange(tc.spec, order) ] ]

\* one policy with each attribute map, of up to three entries; the last map
\* names its attributes like fixed keys of the Data, or not at all
AttributedPolicies ==
    { MkPolicy(PolicyNamespace, PolicyName, MkSpec(50, "", NoSelector, a, "30s", "", 0)) :
        a \in AttributeMaps
                \cup { [ k \in {"team", "env", "zone"} |-> k ],
                       [ k \in {"", "OTEL_SERVICE_NAME", "OTEL_EXPORTER_OTLP_TIMEOUT"}
                           |-> "shadow" ] } }

\* given holds one policy, two policies of any identities, or one policy
\* twice (two passes over it)
CompilerInit ==
    /\ BaseInit
    /\ given \in { << a >> : a \in CompiledPolicies }
             \cup { << a, b >> : a \in NamedPolicies, b \in NamedPolicies }
             \cup { << a, a >> : a \in AttributedPolicies }
    /\ built = <<>>
    /\ ranged = <<>>

\* One pass for each policy of given runs up to its read of the ConfigMap.
Compile ==
    /\ built = <<>>
    /\ \E loops \in [ 1..Len(given) -> UNION { Orders(DOMAIN a) : a \in
                                   { given[i].spec.Attributes : i \in 1..Len(given) } } ] :
          /\ \A i \in 1..Len(given) : loops[i] \in Orders(DOMAIN given[i].spec.Attributes)
          /\ ranged' = loops
          /\ built' = [ i \in 1..Len(given) |-> BuildConfigMap(given[i], loops[i]) ]
    /\ UNCHANGED << storeVars, passVars, driverVars, envVars, log, prevRate, initial,
                    given, demoVars >>

CompilerNext == Compile

CompilerSpec == CompilerInit /\ [][CompilerNext]_vars

(***************************************************************************)
(* The patcher taken alone: the body of the deployment loop applied to     *)
(* deployment objects with more fields and more EnvFrom lists than the     *)
(* cluster above holds.                                                    *)
(***************************************************************************)
EnvFromSources ==
    { ConfigMapRef(ConfigMapName), ConfigMapRef("other"), SecretRef(ConfigMapName) }

EnvFromLists == UNION { [ 1..n -> EnvFromSources ] : n \in 0..MaxEnvFrom }

\* the containers of a deployment, with the given EnvFrom lists
ContainersOf(envFroms) ==
    [ i \in 1..Len(envFroms) |-> [ Name    |-> IF i = 1 THEN "main" ELSE "sidecar",
                                   Image   |-> "img",
                                   EnvFrom |-> envFroms[i] ] ]

\* an item of a deployment listing
DeploymentObject(containers) ==
    [ Name           |-> "d1",
      Namespace      |-> PolicyNamespace,
      Labels         |-> Labels("web"),
      Replicas       |-> 3,
      TemplateLabels |-> Labels("a"),
      Containers     |-> containers ]

\* given holds one deployment of up to MaxContainers containers, each with
\* any EnvFrom list of up to MaxEnvFrom entries
PatcherInit ==
    /\ BaseInit
    /\ \E n \in 1..MaxContainers : \E e \in [ 1..n -> EnvFromLists ] :
          given = << DeploymentObject(ContainersOf(e)) >>
    /\ built = <<>>
    /\ ranged = <<>>

\* One turn of the deployment loop for each item of given: the flag
\* "updated" and the object r.Update is handed when the flag is set.
Patch ==
    /\ built = <<>>
    /\ built' = [ i \in 1..Len(given) |->
                    [ updated    |-> Updated(EnvFroms(given[i])),
                      deployment |-> PatchDeployment(given[i]) ] ]
    /\ UNCHANGED << storeVars, passVars, driverVars, envVars, log, prevRate, initial,
                    given, ranged, demoVars >>

PatcherNext == Patch

PatcherSpec == PatcherInit /\ [][PatcherNext]_vars

(***************************************************************************)
(* The demo service started on a compiled payload: initTracer reads its    *)
(* settings from the environment the derived ConfigMap gives a container.  *)
(***************************************************************************)
DefaultTimeout == 30000    \* milliseconds: 30 * time.Second

\* strconv.Atoi(s) for the decimal numerals of -MaxMillis..MaxMillis, with
\* or without a sign: <<n>>, or <<>> for the error
Atoi(s) ==
    IF \E n \in 0..MaxMillis : s \in { SprintfD(n), "+" \o SprintfD(n) }
    THEN << CHOOSE n \in 0..MaxMillis : s \in { SprintfD(n), "+" \o SprintfD(n) } >>
    ELSE IF \E n \in 0..MaxMillis : s = "-" \o SprintfD(n)
    THEN << 0 - (CHOOSE n \in 0..MaxMillis : s = "-" \o SprintfD(n)) >>
    ELSE <<>>

\* os.Getenv(key) in a process whose environment is environ
Getenv(environ, key) == IF key \in DOMAIN environ THEN environ[key] ELSE ""

\* what initTracer hands to the exporter and to the batch span processor:
\* the timeout in milliseconds, and the batch options
initTracer(environ) ==
    LET timeoutStr       == Getenv(environ, "OTEL_EXPORTER_OTLP_TIMEOUT")
        maxBatchSizeStr  == Getenv(environ, "OTEL_BSP_MAX_EXPORT_BATCH_SIZE")
        scheduleDelayStr == Getenv(environ, "OTEL_BSP_SCHEDULE_DELAY")
    IN  [ timeout |->
            IF timeoutStr # "" /\ Atoi(timeoutStr) # <<>>
            THEN Atoi(timeoutStr)[1] ELSE DefaultTimeout,
          batchOptions |->
            (IF maxBatchSizeStr # "" /\ Atoi(maxBatchSizeStr) # <<>>
             THEN << [ option |-> "WithMaxExportBatchSize",
                       value  |-> Atoi(maxBatchSizeStr)[1] ] >>
             ELSE <<>>)
            \o
            (IF scheduleDelayStr # "" /\ Atoi(scheduleDelayStr) # <<>>
             THEN << [ option |-> "WithBatchTimeout",
                       value  |-> Atoi(scheduleDelayStr)[1] ] >>
             ELSE <<>>) ]

\* values a policy may carry in exportTimeout and batchTimeout: durations
\* written with a unit, and plain numbers
TimeoutValues ==
    { "", "30s", "10s", "5s", "100ms" } \cup { SprintfD(n) : n \in 0..MaxMillis }

WireInit ==
    /\ BaseInit
    /\ given \in { << MkPolicy(PolicyNamespace, PolicyName,
                               MkSpec(50, "", NoSelector, NoAttributes, e, b, m)) >> :
                      e \in TimeoutValues, b \in TimeoutValues, m \in { 0, 7 } }
    /\ built = <<>>
    /\ ranged = <<>>

\* The pass compiles the Data, and a container that takes its environment
\* from the ConfigMap starts the service.
StartService ==
    /\ built = <<>>
    /\ built' = LET data == ConfigMapData(given[1].spec)
                IN  << [ Data |-> data, tracer |-> initTracer(data) ] >>
    /\ UNCHANGED << storeVars, passVars, driverVars, envVars, log, prevRate, initial,
                    given, ranged, demoVars >>

WireNext == StartService

WireSpec == WireInit /\ [][WireNext]_vars

(***************************************************************************)
(* The demo service's order list: createOrderHandler runs once for each    *)
(* request, each run in a goroutine of its own, on the package variable    *)
(* orders, which no lock guards.  The reads and the write of the two       *)
(* statements that save an order are steps of their own.                   *)
(***************************************************************************)
Requests == 1..Len(handlers)

\* A request for /orders arrives, and the server starts a goroutine that
\* runs the handler on it.
ServeOrders ==
    /\ Len(handlers) < MaxRequests
    /\ handlers' = Append(handlers, [ pc |-> "start",
                                      order |-> [ ID |-> 0, UserID |-> 0 ],
                                      appended |-> <<>> ])
    /\ UNCHANGED orders

\* The request is not a POST, or its body does not decode: it is answered
\* with an error.
RejectOrder(r) ==
    /\ handlers[r].pc = "start"
    /\ handlers' = [ handlers EXCEPT ![r].pc = "rejected" ]
    /\ UNCHANGED orders

\* The body decodes to an order, and the handler validates it and
\* calculates its total.
DecodeOrder(r) ==
    /\ handlers[r].pc = "start"
    /\ handlers' = [ handlers EXCEPT ![r].pc = "save",
                                     ![r].order = [ ID |-> 0, UserID |-> r ] ]
    /\ UNCHANGED orders

\* order.ID = len(orders) + 1
AssignID(r) ==
    /\ handlers[r].pc = "save"
    /\ handlers' = [ handlers EXCEPT ![r].pc = "append",
                                     ![r].order.ID = Len(orders) + 1 ]
    /\ UNCHANGED orders

\* append(orders, order) is evaluated on the list as the handler reads it
AppendOrder(r) ==
    /\ handlers[r].pc = "append"
    /\ handlers' = [ handlers EXCEPT ![r].pc = "assign",
                                     ![r].appended = Append(orders, handlers[r].order) ]
    /\ UNCHANGED orders

\* orders = <the appended list>, then the order is sent back with 201
AssignOrders(r) ==
    /\ handlers[r].pc = "assign"
    /\ orders' = handlers[r].appended
    /\ handlers' = [ handlers EXCEPT ![r].pc = "created" ]

createOrderHandler(r) ==
    \/ RejectOrder(r)
    \/ DecodeOrder(r)
    \/ AssignID(r)
    \/ AppendOrder(r)
    \/ AssignOrders(r)

OrdersNext ==
    /\ \/ ServeOrders
       \/ \E r \in Requests : createOrderHandler(r)
    /\ UNCHANGED << storeVars, passVars, driverVars, envVars, log, prevRate, initial,
                    given, built, ranged >>

OrdersSpec == Init /\ [][OrdersNext]_vars

(***************************************************************************)
(* Two calls of Reconcile compared: the second runs against the store the  *)
(* first started from, with another status on the policy.                  *)
(***************************************************************************)
\* status values a policy may carry when a pass reads it
Statuses ==
    { ZeroStatus,
      [ Phase |-> "Applied", Message |-> "Tracing configuration applied to 1 pods",
        AppliedAt |-> << 0 >>, TargetPods |-> << "pod-a1" >> ],
      [ Phase |-> "Applied", Message |-> "Tracing configuration applied to 2 pods",
        AppliedAt |-> << 0 >>, TargetPods |-> << "pod-a1", "pod-gone" >> ],
      [ Phase |-> "Failed", Message |-> "Failed to list pods: StoreError",
        AppliedAt |-> <<>>, TargetPods |-> <<>> ] }

\* stores a pass may start from: the derived ConfigMaps absent or present,
\* the deployments as they start or patched
TwinInit ==
    /\ policy \in { << [ spec |-> sp, status |-> st ] >> : sp \in SpecChoices, st \in Statuses }
    /\ configMaps \in { [ ns \in Namespaces |-> <<>> ],
                         [ ns \in Namespaces |-> << ConfigMapData(InitialSpec) >> ] }
    /\ deployments \in { InitialContainers,
                          [ d \in Deployments |-> PatchContainers(InitialContainers[d]) ] }
    /\ clock = 0
    /\ pc = "idle"
    /\ tracingConfig = [ spec |-> ZeroSpec, status |-> ZeroStatus ]
    /\ tcStale = FALSE
    /\ pods = <<>>
    /\ cmStale = FALSE
    /\ deploymentItems = <<>>
    /\ depIdx = 1
    /\ err = "nil"
    /\ result = NoResult
    /\ queued = TRUE
    /\ timer = "none"
    /\ userEdits = 0
    /\ log = <<>>
    /\ prevRate = -1
    /\ initial = deployments
    /\ given = << [ spec |-> policy[1].spec, status |-> policy[1].status,
                    configMaps |-> configMaps, deployments |-> deployments ] >>
    /\ built = <<>>
    /\ ranged = <<>>
    /\ orders = <<>>
    /\ handlers = <<>>

\* The driver hands the identity to Reconcile for the first call, and again
\* once the store is set back.
TwinStart ==
    /\ log = <<>>
    /\ StartPass

\* specs that differ from spec in the enabled flag or in the headers only
SpecTwins(spec) ==
    { [ spec EXCEPT !.Enabled = e, !.Headers = h ] :
        e \in BOOLEAN,
        h \in { <<>>, [ k \in {"authorization"} |-> "token" ] } } \ { spec }

\* The first call has returned: what it did is kept in built, and the store
\* is set back to what the call started from, but for the policy's status,
\* or for the enabled flag and the headers of its spec.
Rewind ==
    /\ pc = "idle"
    /\ log # <<>>
    /\ built = <<>>
    /\ built' = << [ log    |-> log,
                     phase  |-> tracingConfig.status.Phase,
                     stored |-> policy[1].status.Phase,
                     err    |-> result.err,
                     result |-> result,
                     status |-> tracingConfig.status,
                     configMaps  |-> configMaps,
                     deployments |-> deployments ] >>
    /\ \/ \E st \in Statuses \ { given[1].status } :
             policy' = << [ spec |-> given[1].spec, status |-> st ] >>
       \/ \E sp \in SpecTwins(given[1].spec) :
             policy' = << [ spec |-> sp, status |-> given[1].status ] >>
    /\ configMaps' = given[1].configMaps
    /\ deployments' = given[1].deployments
    /\ clock' = 0
    /\ queued' = TRUE
    /\ timer' = "none"
    /\ log' = <<>>
    /\ UNCHANGED << passVars, envVars, prevRate, initial, given, ranged, demoVars >>

TwinNext ==
    \/ TwinStart
    \/ Rewind
    \/ GetPolicyOK
    \/ GetPolicyError
    \/ StatusPending(TRUE)
    \/ StatusPending(FALSE)
    \/ StatusFailed(TRUE)
    \/ StatusFailed(FALSE)
    \/ ListPodsOK
    \/ ListPodsError
    \/ GetConfigMapFound
    \/ GetConfigMapNotFound
    \/ GetConfigMapError
    \/ CreateConfigMapOK
    \/ CreateConfigMapError
    \/ UpdateConfigMapOK
    \/ UpdateConfigMapError
    \/ ListDeploymentsOK
    \/ ListDeploymentsError
    \/ UpdateDeploymentOK
    \/ UpdateDeploymentError
    \/ StatusApplied(TRUE)
    \/ StatusApplied(FALSE)

TwinSpec == TwinInit /\ [][TwinNext]_vars

(***************************************************************************)
(* Vocabulary of the properties.                                           *)
(***************************************************************************)
\* number of references of an EnvFrom list to the derived ConfigMap
RECURSIVE RefCount(_)
RefCount(envFrom) ==
    IF envFrom = <<>> THEN 0
    ELSE (IF Head(envFrom) = ConfigMapRef(ConfigMapName) THEN 1 ELSE 0)
         + RefCount(Tail(envFrom))

ConfigMapWrites == { "CreateConfigMap", "UpdateConfigMap" }
ConfigMapCalls  == ConfigMapWrites \cup { "GetConfigMap" }
WorkloadCalls   == { "ListDeployments", "UpdateDeployment" }

Logged(ops) == { i \in 1..Len(log) : log[i].op \in ops }

\* the stored policy selects deployment d: the deployment listing of a pass
\* over it returns d
MatchedByPolicy(d) ==
    /\ policy # <<>>
    /\ policy[1].spec.Selector # SelectorBad
    /\ DeploymentNamespace[d] = TargetNamespace(policy[1].spec)
    /\ \/ policy[1].spec.Selector = NoSelector
       \/ DeploymentLabels[d] = Labels("a")

EveryContainerRefers(d) ==
    \A i \in 1..Len(deployments[d]) : RefCount(deployments[d][i]) >= 1

Converged == \A d \in Deployments : MatchedByPolicy(d) => EveryContainerRefers(d)

LogEntries == { log[i] : i \in 1..Len(log) }

\* the number of pods the spec selects, counted from the cluster
MatchingPods(spec) ==
    Cardinality({ i \in 1..Len(PodItems) :
                    /\ PodItems[i].Namespace = TargetNamespace(spec)
                    /\ spec.Selector = NoSelector \/ PodItems[i].Labels = Labels("a") })

AppliedMessage(spec) ==
    CASE MatchingPods(spec) = 0 -> "Tracing configuration applied to 0 pods"
      [] MatchingPods(spec) = 1 -> "Tracing configuration applied to 1 pods"
      [] OTHER                  -> "Tracing configuration applied to 2 pods"

\* C1 as stated: an update of an existing ConfigMap is issued only when its
\* Data differs from the compiled Data, so that a pass over an unchanged
\* cluster writes nothing: no pass completes an update that left the Data as
\* it was.
C1_UpdateOnlyWhenDifferent ==
    Call("UpdateConfigMap", "unchanged", TRUE) \notin LogEntries

\* C2 as stated: after every pass that went through to its Applied status
\* write, every container of a selected deployment that started without the
\* reference carries exactly one.
C2_ExactlyOneAfterEveryPass ==
    (pc = "idle" /\ ~tcStale /\ log # <<>> /\ log[Len(log)].arg = "Applied") =>
        \A d \in Deployments : MatchedByPolicy(d) =>
            \A i \in 1..Len(deployments[d]) :
                RefCount(initial[d][i]) = 0 => RefCount(deployments[d][i]) = 1

\* C2 amended: a container that started without the reference never carries
\* more than one, over any number of passes, and carries exactly one at the
\* end of every pass whose update of its deployment succeeded.
C2_NoDuplication ==
    \A d \in Deployments : \A i \in 1..Len(deployments[d]) :
        RefCount(initial[d][i]) = 0 =>
            /\ RefCount(deployments[d][i]) <= 1
            /\ Call("UpdateDeployment", d, TRUE) \in LogEntries
                   => RefCount(deployments[d][i]) = 1

\* two passes or more have run, and the first container of d1, which started
\* with a ConfigMapRef of another name and a SecretRef of this name, has one
C2_Witness ==
    /\ pc = "idle"
    /\ prevRate # -1
    /\ RefCount(initial["d1"][1]) = 0
    /\ Len(deployments["d1"][1]) = 3
    /\ RefCount(deployments["d1"][1]) = 1

\* C3: within a pass, no deployment update is issued unless the create or
\* update of the ConfigMap succeeded earlier in the same pass.
C3_ConfigBeforeWorkloads ==
    \A i \in Logged({"UpdateDeployment"}) :
        \E j \in Logged(ConfigMapWrites) : j < i /\ log[j].ok

C3_Witness ==
    /\ Call("CreateConfigMap", "ns1", TRUE) \in LogEntries
    /\ Call("UpdateDeployment", "d1", TRUE) \in LogEntries

\* C4: a pass over a policy whose selector does not parse makes no ConfigMap
\* call, no deployment call and no pod listing; it ends with the Failed
\* status and the invalid-selector message written, and returns the error.
C4_InvalidSelectorFailsEarly ==
    (CopyRead /\ tracingConfig.spec.Selector = SelectorBad) =>
        /\ Logged(ConfigMapCalls \cup WorkloadCalls \cup {"ListPods"}) = {}
        /\ pc \in { "StatusPending", "StatusFailed", "idle" }
        /\ pc = "idle" =>
              /\ Len(log) = 3
              /\ log[3].op = "UpdateStatus" /\ log[3].arg = "Failed"
              /\ tracingConfig.status.Phase = "Failed"
              /\ tracingConfig.status.Message = "Invalid label selector: InvalidSelector"
              /\ result = [ err |-> "InvalidSelector", RequeueAfter |-> 0 ]
              /\ (log[3].ok /\ policy # <<>>) =>
                    /\ policy[1].status.Phase = "Failed"
                    /\ policy[1].status.Message = "Invalid label selector: InvalidSelector"

C4_Witness ==
    /\ pc = "idle"
    /\ CopyRead
    /\ tracingConfig.spec.Selector = SelectorBad
    /\ policy # <<>>
    /\ policy[1].status.Phase = "Failed"
    /\ configMaps["ns1"] = <<>>

\* C5: a pass whose create or update of the ConfigMap failed sets the Failed
\* status, makes no deployment call, and returns the error after its status
\* write.
C5_ConfigFailureStopsPass ==
    (\E i \in Logged(ConfigMapWrites) : ~log[i].ok) =>
        /\ Logged(WorkloadCalls) = {}
        /\ tracingConfig.status.Phase = "Failed"
        /\ pc \in { "StatusFailed", "idle" }
        /\ pc = "idle" =>
              /\ log[Len(log)].op = "UpdateStatus" /\ log[Len(log)].arg = "Failed"
              /\ log[Len(log) - 1].op \in ConfigMapWrites
              /\ result = [ err |-> "StoreError", RequeueAfter |-> 0 ]
              /\ (log[Len(log)].ok /\ policy # <<>>) => policy[1].status.Phase = "Failed"

C5_Witness ==
    /\ pc = "idle"
    /\ Call("UpdateConfigMap", "", FALSE) \in LogEntries
    /\ policy # <<>>
    /\ policy[1].status.Phase = "Failed"
    /\ policy[1].status.Message = "Failed to update ConfigMap: StoreError"

\* C6: a pass in which the update of one deployment failed still issues the
\* update of every other deployment that needs one, and ends Applied, with
\* the message counting the matching pods.
C6_PartialFailureIsolation ==
    (CopyRead /\ pc = "idle" /\ \E i \in Logged({"UpdateDeployment"}) : ~log[i].ok) =>
        /\ \A k \in 1..Len(deploymentItems) :
              Updated(deploymentItems[k].Containers) =>
                  \E i \in Logged({"UpdateDeployment"}) :
                      /\ log[i].arg = deploymentItems[k].Name
                      /\ log[i].ok => EveryContainerRefers(deploymentItems[k].Name)
        /\ log[Len(log)].op = "UpdateStatus" /\ log[Len(log)].arg = "Applied"
        /\ tracingConfig.status.Phase = "Applied"
        /\ tracingConfig.status.Message = AppliedMessage(tracingConfig.spec)
        /\ (log[Len(log)].ok /\ policy # <<>>) =>
              /\ policy[1].status.Phase = "Applied"
              /\ policy[1].status.Message = AppliedMessage(tracingConfig.spec)

C6_Witness ==
    /\ pc = "idle"
    /\ Call("UpdateDeployment", "d1", FALSE) \in LogEntries
    /\ Call("UpdateDeployment", "d2", TRUE) \in LogEntries
    /\ ~EveryContainerRefers("d1")
    /\ EveryContainerRefers("d2")
    /\ policy # <<>>
    /\ policy[1].status.Phase = "Applied"
    /\ policy[1].status.Message = "Tracing configuration applied to 1 pods"

\* C7: while the policy exists and is unchanged, every deployment it
\* selects eventually carries the reference on every container, whatever
\* failed in earlier passes (and keeps it: the passes converge).
C7_WorkloadsConverge == <>[]Converged

\* the policy was never edited and has a parsing selector; an earlier pass
\* created the ConfigMap and failed on d1, and this one has brought d1 in
C7_Witness ==
    /\ pc = "idle"
    /\ userEdits = 0
    /\ Call("UpdateConfigMap", "unchanged", TRUE) \in LogEntries
    /\ Call("UpdateDeployment", "d1", TRUE) \in LogEntries
    /\ Call("UpdateDeployment", "d2", TRUE) \notin LogEntries
    /\ Converged

\* C8: once a pass has created or updated the ConfigMap, its Data is exactly
\* the Data compiled from the spec the pass read: no key of an earlier spec
\* or of an edit survives.
C8_ExactPayload ==
    (CopyRead /\ ~cmStale /\ \E i \in Logged(ConfigMapWrites) : log[i].ok) =>
        configMaps[targetNamespace] = << ConfigMapData(tracingConfig.spec) >>

\* the pass before applied a spec with an export timeout; this one updated
\* the ConfigMap for a spec without, and the key is gone
C8_Witness ==
    /\ CopyRead
    /\ ~cmStale
    /\ prevRate = 50
    /\ tracingConfig.spec.SamplingRate = 10
    /\ Call("UpdateConfigMap", "changed", TRUE) \in LogEntries
    /\ DOMAIN configMaps["ns1"][1] =
          { "OTEL_EXPORTER_OTLP_ENDPOINT", "OTEL_SERVICE_NAME",
            "OTEL_TRACES_SAMPLER", "OTEL_TRACES_SAMPLER_ARG" }

\* the derived ConfigMap of the stored policy holds the Data compiled from it
Healed ==
    /\ policy # <<>>
    /\ configMaps[TargetNamespace(policy[1].spec)] = << ConfigMapData(policy[1].spec) >>

\* C9 as stated: while the policy exists, an external edit of the derived
\* ConfigMap is eventually overwritten with the compiled Data.
C9_AnyEditOverwritten ==
    (policy # <<>> /\ Edited(TargetNamespace(policy[1].spec))) ~> (policy = <<>> \/ Healed)

\* C9 amended: while the policy exists and its selector parses, an external
\* edit of the derived ConfigMap is eventually overwritten with the Data
\* compiled from the spec.
C9_EditOverwritten ==
    (policy # <<>> /\ Edited(TargetNamespace(policy[1].spec)))
        ~> (policy = <<>> \/ policy[1].spec.Selector = SelectorBad \/ Healed)

\* the policy was never edited, and the update of this pass changed the Data
\* of the ConfigMap: it overwrote an edit
C9_Witness ==
    /\ userEdits = 0
    /\ Call("UpdateConfigMap", "changed", TRUE) \in LogEntries
    /\ Healed

ExpectedRatio(rate) ==
    CASE rate = 10  -> "0.10"
      [] rate = 50  -> "0.50"
      [] rate = 100 -> "1.00"

\* C10: a pass that succeeds after an earlier pass applied the policy leaves
\* the ConfigMap with the sampler ratio of the stored spec, every container
\* of the selected deployments with exactly one reference, and AppliedAt at
\* the time of this pass.
C10_SpecUpdateApplied ==
    (EndedApplied /\ prevRate # -1 /\ policy # <<>> /\ ~tcStale /\ ~cmStale) =>
        /\ configMaps[TargetNamespace(policy[1].spec)] # <<>>
        /\ configMaps[TargetNamespace(policy[1].spec)][1]["OTEL_TRACES_SAMPLER_ARG"]
              = ExpectedRatio(policy[1].spec.SamplingRate)
        /\ \A d \in Deployments : MatchedByPolicy(d) =>
              \A i \in 1..Len(deployments[d]) : RefCount(deployments[d][i]) = 1
        /\ policy[1].status.Phase = "Applied"
        /\ policy[1].status.AppliedAt = << clock >>

\* applied at rate 0.50 at time 0, then at rate 0.10 at time 1
C10_Witness ==
    /\ EndedApplied
    /\ prevRate = 50
    /\ policy # <<>> /\ ~tcStale /\ ~cmStale
    /\ policy[1].spec.SamplingRate = 10
    /\ configMaps["ns1"][1]["OTEL_TRACES_SAMPLER_ARG"] = "0.10"
    /\ RefCount(deployments["d1"][1]) = 1
    /\ RefCount(deployments["d2"][1]) = 1
    /\ policy[1].status.AppliedAt = << 1 >>

\* the pass in flight has issued a create or update of the ConfigMap or an
\* update of a deployment, and has not made its last status write
MidFlight ==
    /\ pc \in { "StatusFailed", "ListDeployments", "UpdateDeployment", "StatusApplied" }
    /\ Logged(ConfigMapWrites \cup {"UpdateDeployment"}) # {}

\* C11 as stated: at every point of a pass from its first ConfigMap or
\* deployment write to its last status write, the stored phase is Pending.
C11_PendingWhileMidFlight ==
    (MidFlight /\ policy # <<>>) => policy[1].status.Phase = "Pending"

\* C11 amended: when the first status write of the pass succeeded, the stored
\* phase is Pending at every point from that write to the next status write
\* of the pass, as long as the policy exists.
C11_PendingAfterPendingWrite ==
    ( /\ CopyRead
      /\ pc \notin { "idle", "StatusPending" }
      /\ log[2].op = "UpdateStatus" /\ log[2].ok
      /\ policy # <<>> ) => policy[1].status.Phase = "Pending"

\* an earlier pass ended Applied; this one wrote Pending, updated the
\* ConfigMap and stands in the deployment loop
C11_Witness ==
    /\ prevRate # -1
    /\ pc = "UpdateDeployment"
    /\ log[2] = Call("UpdateStatus", "Pending", TRUE)
    /\ policy # <<>>
    /\ policy[1].status.Phase = "Pending"
    /\ policy[1].status.AppliedAt # <<>>

\* store calls up to the write of the ConfigMap
EarlyCalls == { "ListPods", "GetConfigMap", "CreateConfigMap", "UpdateConfigMap" }

\* C12 as stated: a pass in which the selector did not parse, or the pod
\* listing, the read of the ConfigMap, its create or its update failed, ends
\* with its status set to Failed and a diagnostic, and with the Failed
\* status write issued; its status is not left at Pending.
C12_EarlyErrorsSetFailed ==
    ( /\ pc = "idle"
      /\ CopyRead
      /\ \/ tracingConfig.spec.Selector = SelectorBad
         \/ \E i \in Logged(EarlyCalls) : ~log[i].ok /\ log[i].arg # "NotFound" ) =>
        /\ tracingConfig.status.Phase = "Failed"
        /\ tracingConfig.status.Message # "Processing tracing configuration"
        /\ log[Len(log)].op = "UpdateStatus" /\ log[Len(log)].arg = "Failed"

\* C13 as stated: a pass sets its status to Applied only after its create or
\* update of the ConfigMap succeeded and its listing of the deployments
\* succeeded.
C13_AppliedOnlyAfterListing ==
    (CopyRead /\ tracingConfig.status.Phase = "Applied") =>
        /\ \E i \in Logged(ConfigMapWrites) : log[i].ok
        /\ \E i \in Logged({"ListDeployments"}) : log[i].ok

\* the only calls of the latest pass that failed are status writes
OnlyStatusWritesFailed ==
    /\ \E i \in Logged({"UpdateStatus"}) : ~log[i].ok
    /\ \A i \in 1..Len(log) :
          log[i].ok \/ log[i].op = "UpdateStatus" \/ log[i].arg = "NotFound"

\* C14 as stated: a pass in which nothing but status writes failed returns
\* no error to the driver, so that the failed status write causes no retry
\* and with it no further write of the ConfigMap or of a deployment.
C14_StatusFailureNoRetry ==
    ( /\ pc = "idle"
      /\ CopyRead
      /\ tracingConfig.spec.Selector # SelectorBad
      /\ OnlyStatusWritesFailed ) => result.err = "nil"

\* C15: a pass whose read of the policy reports NotFound makes no other
\* store call (no status, ConfigMap or deployment write), returns no error
\* and asks for no requeue.
C15_NotFoundAbandoned ==
    (log # <<>> /\ log[1] = Call("GetPolicy", "NotFound", FALSE)) =>
        /\ Len(log) = 1
        /\ pc = "idle"
        /\ err = "nil"
        /\ result = [ err |-> "nil", RequeueAfter |-> 0 ]

\* the policy was deleted after a pass had created its ConfigMap and patched
\* d1; the pass that found it gone has returned
C15_Witness ==
    /\ policy = <<>>
    /\ pc = "idle"
    /\ log = << Call("GetPolicy", "NotFound", FALSE) >>
    /\ configMaps["ns1"] # <<>>
    /\ RefCount(deployments["d1"][1]) = 1

Identity(obj) == << obj.Namespace, obj.Name >>

\* C17 as stated: passes of two policies of different identity never read or
\* write the same ConfigMap, whatever their names, namespaces and override
\* namespaces.
C17_DistinctIdentitiesDistinctConfigMaps ==
    (Len(built) = 2 /\ Identity(given[1]) # Identity(given[2])) =>
        /\ Identity(built[1].key) # Identity(built[2].key)
        /\ Identity(built[1].configMap) # Identity(built[2].configMap)

\* C18: the ConfigMap a pass reads, and the one it builds to create or
\* update, is named <policy name>-tracing-config and lies in the namespace
\* given by the spec when that is not empty, else in the policy's own.
C18_ConfigMapIdentity ==
    \A i \in 1..Len(built) :
        LET expected == [ Name      |-> given[i].Name \o "-tracing-config",
                          Namespace |-> IF given[i].spec.Namespace # ""
                                        THEN given[i].spec.Namespace
                                        ELSE given[i].Namespace ]
        IN  /\ Identity(built[i].key) = Identity(expected)
            /\ Identity(built[i].configMap) = Identity(expected)

\* policy ns1/q overrides the namespace to ns2, policy ns2/p does not
C18_Witness ==
    /\ Len(built) = 2
    /\ Identity(given[1]) = << "ns1", "q" >> /\ given[1].spec.Namespace = "ns2"
    /\ Identity(given[2]) = << "ns2", "p" >> /\ given[2].spec.Namespace = ""
    /\ Identity(built[1].key) = << "ns2", "q-tracing-config" >>
    /\ Identity(built[2].configMap) = << "ns2", "p-tracing-config" >>

RequiredKeys ==
    { "OTEL_EXPORTER_OTLP_ENDPOINT", "OTEL_SERVICE_NAME",
      "OTEL_TRACES_SAMPLER", "OTEL_TRACES_SAMPLER_ARG" }

\* the keys the claim gives the Data compiled from spec
ExpectedKeys(spec) ==
    RequiredKeys
      \cup { k \in {"OTEL_EXPORTER_OTLP_TIMEOUT"} : spec.ExportTimeout # "" }
      \cup { k \in {"OTEL_BSP_SCHEDULE_DELAY"} : spec.BatchTimeout # "" }
      \cup { k \in {"OTEL_BSP_MAX_EXPORT_BATCH_SIZE"} : spec.MaxBatchSize >= 1 }
      \cup { "OTEL_RESOURCE_ATTRIBUTES_" \o a : a \in DOMAIN spec.Attributes }

\* C19: the compiled Data holds the four required keys, each optional key
\* exactly when its spec field is set (the batch size: when it is positive),
\* one prefixed key with the unchanged value for each attribute, and no
\* other key.
C19_CompiledKeySet ==
    \A i \in 1..Len(built) :
        LET spec == given[i].spec
            data == built[i].configMap.Data
        IN  /\ DOMAIN data = ExpectedKeys(spec)
            /\ data["OTEL_EXPORTER_OTLP_ENDPOINT"] = spec.Endpoint
            /\ data["OTEL_SERVICE_NAME"] = spec.ServiceName
            /\ spec.ExportTimeout # "" => data["OTEL_EXPORTER_OTLP_TIMEOUT"] = spec.ExportTimeout
            /\ spec.BatchTimeout # "" => data["OTEL_BSP_SCHEDULE_DELAY"] = spec.BatchTimeout
            /\ spec.MaxBatchSize = 7 => data["OTEL_BSP_MAX_EXPORT_BATCH_SIZE"] = "7"
            /\ spec.MaxBatchSize = 512 => data["OTEL_BSP_MAX_EXPORT_BATCH_SIZE"] = "512"
            /\ \A a \in DOMAIN spec.Attributes :
                  data["OTEL_RESOURCE_ATTRIBUTES_" \o a] = spec.Attributes[a]

\* every optional field and two attributes are set: nine keys
C19_Witness ==
    /\ Len(built) = 1
    /\ given[1].spec.MaxBatchSize = 512
    /\ given[1].spec.ExportTimeout = "30s"
    /\ Cardinality(DOMAIN built[1].configMap.Data) = 9
    /\ built[1].configMap.Data["OTEL_RESOURCE_ATTRIBUTES_env"] = "prod"
    /\ built[1].configMap.Data["OTEL_BSP_MAX_EXPORT_BATCH_SIZE"] = "512"

\* a rate of h hundredths written with two decimal places
TwoPlaces(h) ==
    LET d == [ n \in 0..9 |-> CASE n = 0 -> "0" [] n = 1 -> "1" [] n = 2 -> "2"
                                [] n = 3 -> "3" [] n = 4 -> "4" [] n = 5 -> "5"
                                [] n = 6 -> "6" [] n = 7 -> "7" [] n = 8 -> "8"
                                [] OTHER -> "9" ]
    IN  (IF h >= 100 THEN "1" ELSE "0") \o "." \o d[(h % 100) \div 10] \o d[h % 10]

\* C20: in every compiled Data the sampler is "traceidratio" and its
\* argument is the sampling rate with exactly two decimal places, for every
\* rate from 0 to 1 in steps of a hundredth.
C20_SamplerValues ==
    \A i \in 1..Len(built) :
        LET rate == given[i].spec.SamplingRate
            data == built[i].configMap.Data
        IN  /\ data["OTEL_TRACES_SAMPLER"] = "traceidratio"
            /\ data["OTEL_TRACES_SAMPLER_ARG"] = TwoPlaces(rate)
            /\ rate = 0   => data["OTEL_TRACES_SAMPLER_ARG"] = "0.00"
            /\ rate = 5   => data["OTEL_TRACES_SAMPLER_ARG"] = "0.05"
            /\ rate = 10  => data["OTEL_TRACES_SAMPLER_ARG"] = "0.10"
            /\ rate = 50  => data["OTEL_TRACES_SAMPLER_ARG"] = "0.50"
            /\ rate = 100 => data["OTEL_TRACES_SAMPLER_ARG"] = "1.00"

C20_Witness ==
    /\ Len(built) = 1
    /\ given[1].spec.SamplingRate = 10
    /\ built[1].configMap.Data["OTEL_TRACES_SAMPLER"] = "traceidratio"
    /\ built[1].configMap.Data["OTEL_TRACES_SAMPLER_ARG"] = "0.10"

\* C21: two passes over the same policy spec build the same Data, whatever
\* order each attribute loop took; the Data is the one mapping the spec
\* determines.
C21_PayloadDeterministic ==
    \A i, j \in 1..Len(built) :
        given[i].spec = given[j].spec =>
            /\ built[i].configMap.Data = built[j].configMap.Data
            /\ built[i].configMap.Data = ConfigMapData(given[i].spec)

\* two passes over a spec with three attributes, whose loops ran in opposite
\* orders
C21_Witness ==
    /\ Len(built) = 2
    /\ given[1] = given[2]
    /\ ranged[1] = << "team", "env", "zone" >>
    /\ ranged[2] = << "zone", "env", "team" >>
    /\ built[1].configMap.Data["OTEL_RESOURCE_ATTRIBUTES_zone"] = "zone"
    /\ Cardinality(DOMAIN built[2].configMap.Data) = 8

\* the updates of deployment d the latest pass issued
UpdatesOf(d) == { i \in Logged({"UpdateDeployment"}) : log[i].arg = d }

\* C22: every update of a deployment a pass issues is for a deployment it
\* listed in which some container lacked the reference, so that a listed
\* deployment whose containers all had it gets none; the pass issues no
\* second update for the same deployment; and the one update carries every
\* container the pass changed: after it, each container of the deployment
\* has the reference once.
C22_MinimalWorkloadWrites ==
    \A i \in 1..Len(log) :
        log[i].op = "UpdateDeployment" =>
            /\ \E k \in 1..Len(deploymentItems) :
                  /\ deploymentItems[k].Name = log[i].arg
                  /\ \E c \in 1..Len(deploymentItems[k].Containers) :
                        RefCount(deploymentItems[k].Containers[c]) = 0
                  /\ log[i].ok =>
                        /\ Len(deployments[log[i].arg]) = Len(deploymentItems[k].Containers)
                        /\ \A c \in 1..Len(deploymentItems[k].Containers) :
                              RefCount(deployments[log[i].arg][c]) = 1
            /\ \A j \in (i + 1)..Len(log) :
                  ~(log[j].op = "UpdateDeployment" /\ log[j].arg = log[i].arg)

\* the pass listed d1, patched by an earlier pass, and d2, whose update had
\* failed before: it wrote d2 once, both containers in the one update, and
\* not d1
C22_Witness ==
    /\ pc = "idle"
    /\ Len(deploymentItems) = 2
    /\ deploymentItems[1].Name = "d1"
    /\ \A c \in 1..2 : RefCount(deploymentItems[1].Containers[c]) = 1
    /\ UpdatesOf("d1") = {}
    /\ Cardinality(UpdatesOf("d2")) = 1
    /\ Call("UpdateDeployment", "d2", TRUE) \in LogEntries
    /\ \A c \in 1..2 : RefCount(deploymentItems[2].Containers[c]) = 0
    /\ \A c \in 1..2 : RefCount(deployments["d2"][c]) = 1

\* C23: the deployment object a pass sends in an update equals the object as
\* listed in every field but the containers' EnvFrom; a container that had
\* no reference to the derived ConfigMap has its list as listed followed by
\* that one reference, and any other container has its list as listed.
C23_PatcherFrame ==
    \A i \in 1..Len(built) :
        built[i].updated =>
            LET listed == given[i]
                sent   == built[i].deployment
            IN  /\ [ sent EXCEPT !.Containers = listed.Containers ] = listed
                /\ Len(sent.Containers) = Len(listed.Containers)
                /\ \A c \in 1..Len(listed.Containers) :
                      LET before == listed.Containers[c]
                          after  == sent.Containers[c]
                      IN  /\ [ after EXCEPT !.EnvFrom = before.EnvFrom ] = before
                          /\ after.EnvFrom =
                                IF RefCount(before.EnvFrom) = 0
                                THEN Append(before.EnvFrom, ConfigMapRef(ConfigMapName))
                                ELSE before.EnvFrom

\* the first container holds a ConfigMapRef of another name and a SecretRef
\* of this name and gets the reference at the end; the second holds the
\* reference in second place and stays as it is
C23_Witness ==
    /\ Len(built) = 1
    /\ built[1].updated
    /\ Len(given[1].Containers) = 2
    /\ given[1].Containers[1].EnvFrom = << ConfigMapRef("other"), SecretRef(ConfigMapName) >>
    /\ given[1].Containers[2].EnvFrom = << ConfigMapRef("other"), ConfigMapRef(ConfigMapName) >>
    /\ built[1].deployment.Containers[1].EnvFrom =
          << ConfigMapRef("other"), SecretRef(ConfigMapName), ConfigMapRef(ConfigMapName) >>
    /\ built[1].deployment.Containers[2] = given[1].Containers[2]
    /\ built[1].deployment.Replicas = 3

\* the latest pass made the call op with success
Succeeded(op) == \E i \in 1..Len(log) : log[i].op = op /\ log[i].ok

\* the pods and the deployments of a namespace, whatever their labels
PodsIn(ns)        == { PodItems[i].Name : i \in { j \in 1..Len(PodItems) : PodItems[j].Namespace = ns } }
DeploymentsIn(ns) == { d \in Deployments : DeploymentNamespace[d] = ns }

\* C24: in a pass over a policy without selector, the pod listing returns
\* exactly the pods of the target namespace and the deployment listing
\* exactly its deployments, whatever their labels; each of these deployments
\* that lacks the reference gets its update, no deployment of another
\* namespace gets one, and the Applied status names exactly these pods.
C24_AbsentSelectorMatchesNamespace ==
    (tracingConfig.spec.Selector = <<>> /\ CopyRead) =>
        /\ Succeeded("ListPods") =>
              /\ { pods[i] : i \in 1..Len(pods) } = PodsIn(targetNamespace)
              /\ Len(pods) = Cardinality(PodsIn(targetNamespace))
        /\ Succeeded("ListDeployments") =>
              /\ { deploymentItems[k].Name : k \in 1..Len(deploymentItems) }
                    = DeploymentsIn(targetNamespace)
              /\ Len(deploymentItems) = Cardinality(DeploymentsIn(targetNamespace))
              /\ pc \in { "StatusApplied", "idle" } =>
                    \A k \in 1..Len(deploymentItems) :
                        (\E c \in 1..Len(deploymentItems[k].Containers) :
                            RefCount(deploymentItems[k].Containers[c]) = 0)
                          => UpdatesOf(deploymentItems[k].Name) # {}
        /\ \A i \in 1..Len(log) :
              log[i].op = "UpdateDeployment"
                  => DeploymentNamespace[log[i].arg] = targetNamespace
        /\ tracingConfig.status.Phase = "Applied" =>
              { tracingConfig.status.TargetPods[i] :
                    i \in 1..Len(tracingConfig.status.TargetPods) } = PodsIn(targetNamespace)

\* a pass over the policy without selector that targets ns2: both pods of
\* ns2, with labels a and b, are listed, and d4, with template labels b, is
\* patched, while d2 in ns1 is not
C24_Witness ==
    /\ pc = "idle"
    /\ CopyRead
    /\ tracingConfig.spec.Selector = <<>>
    /\ targetNamespace = "ns2"
    /\ pods = << "pod-a2", "pod-b2" >>
    /\ Call("UpdateDeployment", "d4", TRUE) \in LogEntries
    /\ RefCount(deployments["d4"][1]) = 1
    /\ RefCount(deployments["d2"][1]) = 0
    /\ policy # <<>>
    /\ policy[1].status.TargetPods = << "pod-a2", "pod-b2" >>

\* the pod-template labels of deployment d satisfy the selector of spec
TemplateSatisfies(d, spec) ==
    \/ spec.Selector = NoSelector
    \/ spec.Selector = SelectorAppA /\ TemplateLabels[d] = Labels("a")

\* C25 as stated: the deployments of the target namespace that a pass takes
\* as its targets (those its listing returns, each patched when it lacks the
\* reference) are exactly those whose pod-template labels satisfy the
\* selector, whatever labels the Deployment objects carry.
C25_TemplateLabelsDecide ==
    (CopyRead /\ Call("ListDeployments", "", TRUE) \in LogEntries) =>
        \A d \in DeploymentsIn(targetNamespace) :
            (\E k \in 1..Len(deploymentItems) : deploymentItems[k].Name = d)
                <=> TemplateSatisfies(d, tracingConfig.spec)

\* the calls of l up to position n
Upto(l, n) == SubSeq(l, 1, n)

\* what a call is aimed at, as far as the log tells it apart from the
\* call's outcome
Target(c) ==
    IF c.op \in { "CreateConfigMap", "UpdateDeployment", "UpdateStatus" } THEN c.arg ELSE ""

\* C26: of two calls of Reconcile against the same store, the policy's
\* status set aside, the second makes the same store calls as the first for
\* as long as the calls have the same outcomes: the same reads, the same
\* creates and updates of the ConfigMap and of the deployments, the same
\* status writes; when all outcomes were the same, both made the same calls,
\* return the same error and end in the same phase.
C26_StatusNotAnInput ==
    built # <<>> =>
        LET first == built[1].log
        IN  /\ \A i \in 1..Len(log) :
                  (i - 1 <= Len(first) /\ Upto(log, i - 1) = Upto(first, i - 1)) =>
                      /\ i <= Len(first)
                      /\ log[i].op = first[i].op
                      /\ Target(log[i]) = Target(first[i])
            /\ ( /\ pc = "idle"
                 /\ log # <<>>
                 /\ Len(log) <= Len(first)
                 /\ log = Upto(first, Len(log)) ) =>
                  /\ log = first
                  /\ tracingConfig.status.Phase = built[1].phase
                  /\ result.err = built[1].err
                  /\ log[Len(log)] = Call("UpdateStatus", built[1].phase, TRUE)
                        => policy[1].status.Phase = built[1].stored

\* the first call ran on a policy without status, the second on the policy
\* with an Applied status of an earlier time and other pods: both created
\* the ConfigMap, updated d1 and d2 and ended Applied
C26_Witness ==
    /\ built # <<>>
    /\ pc = "idle"
    /\ given[1].status = ZeroStatus
    /\ given[1].spec = InitialSpec
    /\ log = built[1].log
    /\ Cardinality(Logged(ConfigMapWrites \cup {"UpdateDeployment"})) = 3
    /\ Call("CreateConfigMap", "ns1", TRUE) \in LogEntries
    /\ tracingConfig.status.Phase = "Applied"
    /\ built[1].phase = "Applied"
    /\ policy[1].status.TargetPods = << "pod-a1" >>

\* the last-applied fields of a status
LastApplied(status) == << status.AppliedAt, status.TargetPods >>

\* C27: the stored status starts without AppliedAt, and the stored AppliedAt
\* and TargetPods change in no step but the successful Applied status write
\* of a pass, which stores the time and the pods of that pass: the Pending
\* and Failed status writes, and every other step, leave them as the last
\* pass that ended Applied wrote them.
C27_LastAppliedOnlyByApplied ==
    /\ LastApplied(policy[1].status) = << <<>>, <<>> >>
    /\ [][ ( /\ policy # <<>>
             /\ policy' # <<>>
             /\ LastApplied(policy'[1].status) # LastApplied(policy[1].status) ) =>
               /\ pc = "StatusApplied"
               /\ log' = Append(log, Call("UpdateStatus", "Applied", TRUE))
               /\ LastApplied(policy'[1].status) = << << clock >>, pods >> ]_vars

\* an earlier pass ended Applied at time 0 with one pod; the latest pass
\* wrote Pending, failed to update the ConfigMap and wrote Failed: the stored
\* time and pod list are those of the earlier pass
C27_Witness ==
    /\ pc = "idle"
    /\ Call("UpdateStatus", "Pending", TRUE) \in LogEntries
    /\ Call("UpdateConfigMap", "", FALSE) \in LogEntries
    /\ Call("UpdateStatus", "Failed", TRUE) \in LogEntries
    /\ policy # <<>>
    /\ policy[1].status.Phase = "Failed"
    /\ LastApplied(policy[1].status) = << << 0 >>, << "pod-a1" >> >>
    /\ clock = 1

\* the names of the pods the spec selects, read from the cluster
MatchingPodNames(spec) ==
    LET sel == SelectSeq(PodItems,
                 LAMBDA p : /\ p.Namespace = TargetNamespace(spec)
                            /\ spec.Selector = NoSelector \/ p.Labels = Labels("a"))
    IN  [ i \in 1..Len(sel) |-> sel[i].Name ]

\* C28: when a pass has ended with its Applied status write stored, the
\* stored TargetPods are the names its own pod listing returned, which are
\* the pods of the target namespace the selector matches, and no other name;
\* the stored message gives their number.
C28_AppliedStatusContent ==
    ( /\ pc = "idle"
      /\ CopyRead
      /\ log[Len(log)] = Call("UpdateStatus", "Applied", TRUE)
      /\ policy # <<>> ) =>
        /\ policy[1].status.TargetPods = pods
        /\ policy[1].status.TargetPods = MatchingPodNames(tracingConfig.spec)
        /\ policy[1].status.Message = AppliedMessage(tracingConfig.spec)

\* the pass before ended Applied for the spec that selects pod-a1 in ns1;
\* this one ended Applied for the spec that takes all of ns2, and the stored
\* list holds the two pods of ns2 only
C28_Witness ==
    /\ pc = "idle"
    /\ prevRate = 50
    /\ log[Len(log)] = Call("UpdateStatus", "Applied", TRUE)
    /\ tracingConfig.spec.Namespace = "ns2"
    /\ policy # <<>>
    /\ policy[1].status.TargetPods = << "pod-a2", "pod-b2" >>
    /\ policy[1].status.Message = "Tracing configuration applied to 2 pods"

\* a pass that read the policy, or failed to read it, has returned
PassCompleted ==
    /\ pc = "idle"
    /\ log # <<>>
    /\ log[1] # Call("GetPolicy", "NotFound", FALSE)

\* C29: while the policy exists, a pass that has returned, whether it ended
\* Applied, Failed or with an error and no status written, is followed by
\* another pass, whether or not any event arrives.
C29_PassFollowedByPass ==
    (PassCompleted /\ policy # <<>>) ~> (pc = "Get" \/ policy = <<>>)

\* a pass has returned an error with no status write stored, so that no
\* event of its own queues the identity: only the delayed re-add is pending
C29_Witness ==
    /\ PassCompleted
    /\ policy # <<>>
    /\ result.err = "StoreError"
    /\ \A i \in Logged({"UpdateStatus"}) : ~log[i].ok
    /\ ~queued
    /\ timer = "backoff"
    /\ userEdits = 0

\* two calls are the same write: both create or update the ConfigMap, both
\* update the same deployment, or both write the same status
SameWrite(a, b) ==
    \/ a.op \in ConfigMapWrites /\ b.op \in ConfigMapWrites
    \/ /\ a.op \in { "UpdateDeployment", "UpdateStatus" }
       /\ b.op = a.op
       /\ b.arg = a.arg

\* C30: in one pass the ConfigMap is created or updated at most once, each
\* deployment is updated at most once, and each status is written at most
\* once: no write, failed or not, is followed by the same write before the
\* pass returns.
C30_NoInPassRetries ==
    \A i \in 1..Len(log) : \A j \in (i + 1)..Len(log) : ~SameWrite(log[i], log[j])

\* the pass has returned: its create of the ConfigMap failed and was made
\* once, the ConfigMap is still absent, and no deployment was written
C30_Witness ==
    /\ pc = "idle"
    /\ Logged(ConfigMapWrites) # {}
    /\ \A i \in Logged(ConfigMapWrites) : log[i] = Call("CreateConfigMap", "ns1", FALSE)
    /\ configMaps["ns1"] = <<>>
    /\ Logged({"UpdateDeployment"}) = {}
    /\ result.err = "StoreError"

\* C31: a pass whose pod listing failed sets the Failed status with the
\* message "Failed to list pods: <error>", makes no call on the ConfigMap
\* and none on the deployments, writes the status once more and returns the
\* listing's error.
C31_PodListFailureStopsPass ==
    []((\E i \in 1..Len(log) : log[i].op = "ListPods" /\ ~log[i].ok) =>
           /\ \A i \in 1..Len(log) : log[i].op \notin ConfigMapCalls \cup WorkloadCalls
           /\ tracingConfig.status.Phase = "Failed"
           /\ tracingConfig.status.Message = "Failed to list pods: StoreError"
           /\ pc \in { "StatusFailed", "idle" }
           /\ pc = "idle" =>
                 /\ log[Len(log)].op = "UpdateStatus" /\ log[Len(log)].arg = "Failed"
                 /\ log[Len(log) - 1].op = "ListPods"
                 /\ result = [ err |-> "StoreError", RequeueAfter |-> 0 ]
                 /\ (log[Len(log)].ok /\ policy # <<>>) =>
                       /\ policy[1].status.Phase = "Failed"
                       /\ policy[1].status.Message = "Failed to list pods: StoreError" )

\* the pass has returned after a failed pod listing: the stored status is
\* Failed with the listing's message, and no ConfigMap was created
C31_Witness ==
    /\ pc = "idle"
    /\ \E i \in 1..Len(log) : log[i] = Call("ListPods", "", FALSE)
    /\ log[Len(log)] = Call("UpdateStatus", "Failed", TRUE)
    /\ policy # <<>>
    /\ policy[1].status.Message = "Failed to list pods: StoreError"
    /\ \A ns \in Namespaces : configMaps[ns] = <<>>
    /\ result.err = "StoreError"

\* C32: in a pass that read the policy, the first write to the store is the
\* status write of Pending, the pass's second call; whether that write
\* succeeded or failed, the pass goes on to the selector and the pod listing,
\* and a pass whose Pending write failed and whose later calls succeeded has
\* read and written the ConfigMap, listed the deployments and written the
\* Applied status.
C32_PendingWriteFirst ==
    [](CopyRead =>
           /\ \A i \in 1..Len(log) : log[i].op \in ConfigMapWrites \cup { "UpdateDeployment", "UpdateStatus" } =>
                 /\ i >= 2
                 /\ log[2].op = "UpdateStatus" /\ log[2].arg = "Pending"
           /\ Len(log) = 1 => pc = "StatusPending"
           /\ Len(log) = 2 =>
                 pc = IF tracingConfig.spec.Selector = SelectorBad
                      THEN "StatusFailed" ELSE "ListPods"
           /\ ( /\ pc = "idle"
                /\ tracingConfig.spec.Selector # SelectorBad
                /\ \A i \in 3..Len(log) :
                      log[i].ok \/ log[i] = Call("GetConfigMap", "NotFound", FALSE) ) =>
                 /\ \E i \in 3..Len(log) : log[i].op \in ConfigMapWrites
                 /\ \E i \in 3..Len(log) : log[i].op = "ListDeployments"
                 /\ log[Len(log)] = Call("UpdateStatus", "Applied", TRUE) )

\* the Pending write of the pass failed; the pass then created the ConfigMap,
\* updated a deployment and stored the Applied status
C32_Witness ==
    /\ pc = "idle"
    /\ CopyRead
    /\ log[2] = Call("UpdateStatus", "Pending", FALSE)
    /\ \E i \in 3..Len(log) : log[i] = Call("CreateConfigMap", targetNamespace, TRUE)
    /\ \E i \in 3..Len(log) : log[i].op = "UpdateDeployment" /\ log[i].ok
    /\ log[Len(log)] = Call("UpdateStatus", "Applied", TRUE)

\* C33: a pass that has returned asked for a re-add after RequeueAfter
\* exactly when its last call was the successful status write of Applied,
\* and then it returned no error; a pass with an invalid selector, a failed
\* pod listing, a failed read, create or update of the ConfigMap, or a failed
\* status write of Applied returned the error and a zero RequeueAfter.
C33_RequeueOnlyAfterApplied ==
    []((pc = "idle" /\ log # <<>>) =>
           /\ result.RequeueAfter \in { 0, RequeueAfter }
           /\ result.RequeueAfter = RequeueAfter
                 <=> log[Len(log)] = Call("UpdateStatus", "Applied", TRUE)
           /\ result.RequeueAfter = RequeueAfter => result.err = "nil"
           /\ ( \/ CopyRead /\ tracingConfig.spec.Selector = SelectorBad
                \/ \E i \in 1..Len(log) :
                      /\ ~log[i].ok
                      /\ \/ log[i].op \in { "ListPods" } \cup ConfigMapWrites
                         \/ log[i] = Call("GetConfigMap", "", FALSE)
                         \/ log[i].op = "UpdateStatus" /\ log[i].arg = "Applied" ) =>
                 /\ result.err # "nil"
                 /\ result.RequeueAfter = 0 )

\* a pass returned the error of its failed status write of Applied, with no
\* RequeueAfter, after it had created the ConfigMap
C33_Witness ==
    /\ pc = "idle"
    /\ CopyRead
    /\ log[Len(log)] = Call("UpdateStatus", "Applied", FALSE)
    /\ \E i \in 1..Len(log) : log[i].op = "CreateConfigMap" /\ log[i].ok
    /\ result = [ err |-> "StoreError", RequeueAfter |-> 0 ]

\* C34 as stated: the status writes of a pass do not hand the identity back
\* to the driver: when a pass has ended Applied, the user has written
\* nothing and the RequeueAfter timer has not fired, no pass is waiting to
\* start.
C34_QuietAfterApplied ==
    (EndedApplied /\ policy # <<>> /\ userEdits = 0 /\ timer = "requeueAfter") => ~queued

\* C36: no step deletes a derived ConfigMap, and no step takes an entry away
\* from a container's EnvFrom: a ConfigMap that exists exists after the step,
\* every deployment keeps its containers, and every container keeps the
\* entries it had, in their order, so that the count of its references to
\* the derived ConfigMap never falls.
C36_NoDeletion ==
    [][ /\ \/ configMaps' = configMaps
           \/ \A ns \in Namespaces : configMaps[ns] # <<>> => configMaps'[ns] # <<>>
        /\ \/ deployments' = deployments
           \/ \A d \in Deployments :
                 /\ Len(deployments'[d]) = Len(deployments[d])
                 /\ \A i \in 1..Len(deployments[d]) :
                       /\ Len(deployments'[d][i]) >= Len(deployments[d][i])
                       /\ SubSeq(deployments'[d][i], 1, Len(deployments[d][i]))
                             = deployments[d][i]
                       /\ RefCount(deployments'[d][i]) >= RefCount(deployments[d][i]) ]_vars

\* the policy was applied in ns1 and deleted afterwards; the pass that found
\* it gone has returned, and the ConfigMap of ns1 and the reference in d1
\* are still there
C36_Witness ==
    /\ pc = "idle"
    /\ policy = <<>>
    /\ log = << Call("GetPolicy", "NotFound", FALSE) >>
    /\ configMaps["ns1"] # <<>>
    /\ \A i \in 1..Len(deployments["d1"]) : RefCount(deployments["d1"][i]) = 1

\* C37: the keys written for the attributes of a spec are as many as the
\* attributes, none of them is one of the seven fixed keys, and the Data
\* holds the fixed keys with the values of their spec fields beside one
\* entry for each attribute: no attribute has overwritten a fixed key, and
\* none another attribute.
C37_AttributesShadowNothing ==
    \A i \in 1..Len(built) :
        LET spec == given[i].spec
            data == built[i].configMap.Data
            keys == { "OTEL_RESOURCE_ATTRIBUTES_" \o a : a \in DOMAIN spec.Attributes }
            fixed == DOMAIN data \cap
                        (RequiredKeys \cup { "OTEL_EXPORTER_OTLP_TIMEOUT",
                                             "OTEL_BSP_SCHEDULE_DELAY",
                                             "OTEL_BSP_MAX_EXPORT_BATCH_SIZE" })
        IN  /\ Cardinality(keys) = Cardinality(DOMAIN spec.Attributes)
            /\ keys \cap fixed = {}
            /\ RequiredKeys \subseteq fixed
            /\ Cardinality(DOMAIN data)
                  = Cardinality(fixed) + Cardinality(DOMAIN spec.Attributes)
            /\ data["OTEL_EXPORTER_OTLP_ENDPOINT"] = spec.Endpoint
            /\ data["OTEL_SERVICE_NAME"] = spec.ServiceName
            /\ data["OTEL_TRACES_SAMPLER"] = "traceidratio"
            /\ data["OTEL_TRACES_SAMPLER_ARG"] = TwoPlaces(spec.SamplingRate)
            /\ "OTEL_EXPORTER_OTLP_TIMEOUT" \in fixed
                  => data["OTEL_EXPORTER_OTLP_TIMEOUT"] = spec.ExportTimeout
            /\ "OTEL_BSP_SCHEDULE_DELAY" \in fixed
                  => data["OTEL_BSP_SCHEDULE_DELAY"] = spec.BatchTimeout
            /\ "OTEL_BSP_MAX_EXPORT_BATCH_SIZE" \in fixed
                  => data["OTEL_BSP_MAX_EXPORT_BATCH_SIZE"] = SprintfD(spec.MaxBatchSize)
            /\ \A a \in DOMAIN spec.Attributes :
                  /\ "OTEL_RESOURCE_ATTRIBUTES_" \o a \in DOMAIN data
                  /\ data["OTEL_RESOURCE_ATTRIBUTES_" \o a] = spec.Attributes[a]

\* attributes named "", OTEL_SERVICE_NAME and OTEL_EXPORTER_OTLP_TIMEOUT
\* were compiled with an export timeout of 30s: the Data holds eight keys,
\* the service name and the timeout are those of the spec
C37_Witness ==
    /\ Len(built) = 2
    /\ DOMAIN given[1].spec.Attributes
          = { "", "OTEL_SERVICE_NAME", "OTEL_EXPORTER_OTLP_TIMEOUT" }
    /\ Cardinality(DOMAIN built[1].configMap.Data) = 8
    /\ built[1].configMap.Data["OTEL_EXPORTER_OTLP_TIMEOUT"] = "30s"
    /\ built[1].configMap.Data["OTEL_RESOURCE_ATTRIBUTES_"] = "shadow"
    /\ built[1].configMap.Data["OTEL_RESOURCE_ATTRIBUTES_OTEL_SERVICE_NAME"] = "shadow"

\* C35: of two calls of Reconcile against the same store, on policies whose
\* specs differ in the enabled flag or in the headers only, the second makes
\* the same store calls as the first for as long as the calls have the same
\* outcomes; when all outcomes were the same and the clock read the same
\* time, both leave the same ConfigMaps and the same deployments, hold the
\* same status and return the same result. A ConfigMap written by the
\* second call holds the Data compiled from the first call's spec.
C35_EnabledAndHeadersNotRead ==
    (built # <<>> /\ CopyRead /\ tracingConfig.spec # given[1].spec) =>
        LET first == built[1].log
        IN  /\ \A i \in 1..Len(log) :
                  (i - 1 <= Len(first) /\ Upto(log, i - 1) = Upto(first, i - 1)) =>
                      /\ i <= Len(first)
                      /\ log[i].op = first[i].op
                      /\ Target(log[i]) = Target(first[i])
            /\ (\E i \in 1..Len(log) : log[i].op \in ConfigMapWrites /\ log[i].ok) =>
                  configMaps[targetNamespace] = << ConfigMapData(given[1].spec) >>
            /\ (pc = "idle" /\ log = first) =>
                  /\ configMaps = built[1].configMaps
                  /\ deployments = built[1].deployments
                  /\ result = built[1].result
                  /\ tracingConfig.status.Phase = built[1].status.Phase
                  /\ tracingConfig.status.Message = built[1].status.Message
                  /\ tracingConfig.status.TargetPods = built[1].status.TargetPods
                  /\ Len(tracingConfig.status.AppliedAt) = Len(built[1].status.AppliedAt)
                  /\ tracingConfig.status.AppliedAt # built[1].status.AppliedAt
                        => clock # built[1].status.AppliedAt[1]

\* the first call ran on the policy as written, the second on the policy
\* with enabled false and an authorization header: both created the
\* ConfigMap with the same Data, updated d1 and d2 and ended Applied
C35_Witness ==
    /\ built # <<>>
    /\ pc = "idle"
    /\ given[1].spec = InitialSpec
    /\ tracingConfig.spec = [ InitialSpec EXCEPT !.Enabled = FALSE,
                                !.Headers = [ k \in {"authorization"} |-> "token" ] ]
    /\ log = built[1].log
    /\ \E i \in 1..Len(log) : log[i] = Call("CreateConfigMap", "ns1", TRUE)
    /\ \E i \in 1..Len(log) : log[i] = Call("UpdateDeployment", "d2", TRUE)
    /\ configMaps["ns1"] = << ConfigMapData(InitialSpec) >>
    /\ tracingConfig.status.Phase = "Applied"
    /\ built[1].status.Phase = "Applied"

\* C38 as stated: the service started on the Data compiled from a policy
\* takes the policy's export timeout as the timeout of its exporter and the
\* policy's batch timeout as the schedule delay of its batch processor,
\* whenever the policy sets them (a value stands for its time in
\* milliseconds: 30s for 30000, a plain number for itself).
C38_TimeoutsReachTheService ==
    built # <<>> =>
        LET spec   == given[1].spec
            tracer == built[1].tracer
            Meant(v) == CASE v = "30s"   -> 30000
                          [] v = "10s"   -> 10000
                          [] v = "5s"    -> 5000
                          [] v = "100ms" -> 100
                          [] OTHER       -> Atoi(v)[1]
        IN  /\ spec.ExportTimeout # "" => tracer.timeout = Meant(spec.ExportTimeout)
            /\ spec.BatchTimeout # "" =>
                  \E i \in 1..Len(tracer.batchOptions) :
                      tracer.batchOptions[i] = [ option |-> "WithBatchTimeout",
                                                 value  |-> Meant(spec.BatchTimeout) ]

\* C39 as stated: whatever the interleaving of the requests, every order
\* answered with 201 is in the order list, at the position its ID names, and
\* no two orders of the list have the same ID.
C39_EveryOrderKept ==
    /\ \A r \in Requests :
          handlers[r].pc = "created" =>
              /\ handlers[r].order.ID \in 1..Len(orders)
              /\ orders[handlers[r].order.ID] = handlers[r].order
    /\ \A i \in 1..Len(orders) : orders[i].ID = i

====
